---- MODULE Spec2Model ----
(***************************************************************************)
(* Strict FAQ Generator (src/index.js): the text-analysis pipeline         *)
(* (TextAnalyzer, FAQGenerator) and the UIController handlers around it.   *)
(*                                                                         *)
(* Text is a sequence of one-character strings, so that the string         *)
(* operations of the source (replace, split, trim, slice, indexOf, the     *)
(* regular expressions) are computed character by character.               *)
(*                                                                         *)
(* Numbers: sentence importance is a JavaScript double in the source.      *)
(* Here it is a fixed-point integer in thousandths (0.5 is 500), Math.log  *)
(* is the table LnMilli, and a quotient is rounded down.  The order of two *)
(* scores is the source's wherever they differ by more than the rounding.  *)
(***************************************************************************)
EXTENDS Integers, Sequences, FiniteSets, TLC

(***************************************************************************)
(* CONFIG (src/index.js:10-40)                                             *)
(***************************************************************************)
MIN_SENTENCES == 5

FAQ_COUNT == 5

MIN_SENTENCE_LENGTH == 20

STOP_WORDS ==
    { <<"a">>, <<"a", "n">>, <<"t", "h", "e">>, <<"a", "n", "d">>, <<"o", "r">>, <<"b", "u", "t">>, <<"i", "n">>, <<"o", "n">>, <<"a", "t">>, <<"t", "o">>, <<"f", "o", "r">>,
      <<"o", "f">>, <<"w", "i", "t", "h">>, <<"b", "y">>, <<"f", "r", "o", "m">>, <<"a", "s">>, <<"i", "s">>, <<"w", "a", "s">>, <<"a", "r", "e">>, <<"w", "e", "r", "e">>, <<"b", "e", "e", "n">>,
      <<"b", "e">>, <<"h", "a", "v", "e">>, <<"h", "a", "s">>, <<"h", "a", "d">>, <<"d", "o">>, <<"d", "o", "e", "s">>, <<"d", "i", "d">>, <<"w", "i", "l", "l">>, <<"w", "o", "u", "l", "d">>,
      <<"c", "o", "u", "l", "d">>, <<"s", "h", "o", "u", "l", "d">>, <<"m", "a", "y">>, <<"m", "i", "g", "h", "t">>, <<"m", "u", "s", "t">>, <<"s", "h", "a", "l", "l">>, <<"c", "a", "n">>, <<"n", "e", "e", "d">>,
      <<"i", "t">>, <<"i", "t", "s">>, <<"t", "h", "i", "s">>, <<"t", "h", "a", "t">>, <<"t", "h", "e", "s", "e">>, <<"t", "h", "o", "s", "e">>, <<"i">>, <<"y", "o", "u">>, <<"h", "e">>,
      <<"s", "h", "e">>, <<"w", "e">>, <<"t", "h", "e", "y">>, <<"w", "h", "a", "t">>, <<"w", "h", "i", "c", "h">>, <<"w", "h", "o">>, <<"w", "h", "o", "m">>, <<"w", "h", "e", "n">>, <<"w", "h", "e", "r", "e">>,
      <<"w", "h", "y">>, <<"h", "o", "w">>, <<"a", "l", "l">>, <<"e", "a", "c", "h">>, <<"e", "v", "e", "r", "y">>, <<"b", "o", "t", "h">>, <<"f", "e", "w">>, <<"m", "o", "r", "e">>, <<"m", "o", "s", "t">>,
      <<"o", "t", "h", "e", "r">>, <<"s", "o", "m", "e">>, <<"s", "u", "c", "h">>, <<"n", "o">>, <<"n", "o", "r">>, <<"n", "o", "t">>, <<"o", "n", "l", "y">>, <<"o", "w", "n">>, <<"s", "a", "m", "e">>,
      <<"s", "o">>, <<"t", "h", "a", "n">>, <<"t", "o", "o">>, <<"v", "e", "r", "y">>, <<"j", "u", "s", "t">>, <<"a", "l", "s", "o">>, <<"n", "o", "w">>, <<"h", "e", "r", "e">>, <<"t", "h", "e", "r", "e">> }

IMPORTANCE_INDICATORS ==
    << <<"i", "m", "p", "o", "r", "t", "a", "n", "t">>, <<"e", "s", "s", "e", "n", "t", "i", "a", "l">>, <<"c", "r", "i", "t", "i", "c", "a", "l">>, <<"k", "e", "y">>, <<"m", "a", "i", "n">>, <<"p", "r", "i", "m", "a", "r", "y">>,
       <<"s", "i", "g", "n", "i", "f", "i", "c", "a", "n", "t">>, <<"m", "a", "j", "o", "r">>, <<"f", "u", "n", "d", "a", "m", "e", "n", "t", "a", "l">>, <<"c", "r", "u", "c", "i", "a", "l">>, <<"v", "i", "t", "a", "l">>, <<"n", "e", "c", "e", "s", "s", "a", "r", "y">>,
       <<"m", "u", "s", "t">>, <<"s", "h", "o", "u", "l", "d">>, <<"a", "l", "w", "a", "y", "s">>, <<"n", "e", "v", "e", "r">>, <<"r", "e", "q", "u", "i", "r", "e", "s">>, <<"e", "n", "s", "u", "r", "e", "s">> >>

(***************************************************************************)
(* Characters and the JavaScript string operations the source uses.        *)
(***************************************************************************)
UpperChars ==
    {"A", "B", "C", "D", "E", "F", "G", "H", "I", "J", "K", "L", "M",
     "N", "O", "P", "Q", "R", "S", "T", "U", "V", "W", "X", "Y", "Z"}

LowerChars ==
    {"a", "b", "c", "d", "e", "f", "g", "h", "i", "j", "k", "l", "m",
     "n", "o", "p", "q", "r", "s", "t", "u", "v", "w", "x", "y", "z"}

DigitChars == {"0", "1", "2", "3", "4", "5", "6", "7", "8", "9"}

LowerOf ==
    ("A" :> "a") @@ ("B" :> "b") @@ ("C" :> "c") @@ ("D" :> "d") @@ ("E" :> "e") @@
    ("F" :> "f") @@ ("G" :> "g") @@ ("H" :> "h") @@ ("I" :> "i") @@ ("J" :> "j") @@
    ("K" :> "k") @@ ("L" :> "l") @@ ("M" :> "m") @@ ("N" :> "n") @@ ("O" :> "o") @@
    ("P" :> "p") @@ ("Q" :> "q") @@ ("R" :> "r") @@ ("S" :> "s") @@ ("T" :> "t") @@
    ("U" :> "u") @@ ("V" :> "v") @@ ("W" :> "w") @@ ("X" :> "x") @@ ("Y" :> "y") @@
    ("Z" :> "z")

\* \s of a regular expression, and the characters String.prototype.trim strips.
IsSpace(c) == c \in {" ", "\n", "\t"}

\* [A-Z]
IsUpper(c) == c \in UpperChars

\* [a-z]
IsLower(c) == c \in LowerChars

\* \d
IsDigit(c) == c \in DigitChars

\* \w
IsWordChar(c) == c \in UpperChars \cup LowerChars \cup DigitChars \cup {"_"}

\* [.!?]
IsTerminal(c) == c \in {".", "!", "?"}

ToLowerChar(c) == IF c \in UpperChars THEN LowerOf[c] ELSE c

\* String.prototype.toLowerCase
toLowerCase(t) == SubSeq([i \in 1..Len(t) |-> ToLowerChar(t[i])], 1, Len(t))

\* t.slice(from0, to0) with 0-based offsets, clamped as JavaScript clamps them.
slice(t, from0, to0) ==
    LET a == IF from0 < 0 THEN 0 ELSE IF from0 > Len(t) THEN Len(t) ELSE from0
        b == IF to0 < 0 THEN 0 ELSE IF to0 > Len(t) THEN Len(t) ELSE to0
    IN  SubSeq(t, a + 1, b)

\* Whether p occurs in t at the 1-based position i.
OccursAt(t, i, p) ==
    /\ i >= 1
    /\ i + Len(p) - 1 <= Len(t)
    /\ \A k \in 1..Len(p) : t[i + k - 1] = p[k]

\* OccursAt, ignoring case (the "i" flag of a regular expression of literals).
OccursAtIgnoreCase(t, i, p) ==
    /\ i >= 1
    /\ i + Len(p) - 1 <= Len(t)
    /\ \A k \in 1..Len(p) : ToLowerChar(t[i + k - 1]) = ToLowerChar(p[k])

\* The least element of a non-empty set of integers.
Least(S) == CHOOSE i \in S : \A j \in S : i <= j

\* String.prototype.indexOf: the first 0-based offset of p in t, or -1.
indexOf(t, p) ==
    LET hits == {i \in 1..(Len(t) - Len(p) + 1) : OccursAt(t, i, p)}
    IN  IF hits = {} THEN -1 ELSE Least(hits) - 1

\* String.prototype.includes
includes(t, p) == indexOf(t, p) # -1

\* String.prototype.trimStart and trimEnd
RECURSIVE trimStart(_)
trimStart(t) ==
    IF t = <<>> \/ ~IsSpace(t[1]) THEN t ELSE trimStart(Tail(t))

RECURSIVE trimEnd(_)
trimEnd(t) ==
    IF t = <<>> \/ ~IsSpace(t[Len(t)]) THEN t ELSE trimEnd(SubSeq(t, 1, Len(t) - 1))

\* String.prototype.trim
trim(t) == trimEnd(trimStart(t))

\* t.replace(/pat/g, rep) for a pattern of literal characters: the matches are
\* taken left to right and do not overlap.
RECURSIVE replaceAll(_, _, _)
replaceAll(t, pat, rep) ==
    LET i == indexOf(t, pat)
    IN  IF i = -1 THEN t
        ELSE SubSeq(t, 1, i) \o rep
                 \o replaceAll(SubSeq(t, i + Len(pat) + 1, Len(t)), pat, rep)

\* The end of the run of whitespace that starts at i.
SpaceRunEnd(t, i) ==
    CHOOSE j \in i..Len(t) :
        /\ \A k \in i..j : IsSpace(t[k])
        /\ j = Len(t) \/ ~IsSpace(t[j + 1])

\* t.split(/\s+/): the pieces between the runs of whitespace; a run at either
\* end leaves an empty piece there, and the empty text gives one empty piece.
RECURSIVE splitSpaces(_)
splitSpaces(t) ==
    LET sp == {i \in 1..Len(t) : IsSpace(t[i])}
    IN  IF sp = {} THEN <<t>>
        ELSE LET i == Least(sp)
                 j == SpaceRunEnd(t, i)
             IN  <<SubSeq(t, 1, i - 1)>> \o splitSpaces(SubSeq(t, j + 1, Len(t)))

\* Array.prototype.join
RECURSIVE join(_, _)
join(parts, sep) ==
    IF Len(parts) = 0 THEN <<>>
    ELSE IF Len(parts) = 1 THEN parts[1]
    ELSE parts[1] \o sep \o join(Tail(parts), sep)

\* The elements of a sequence.
Range(s) == {s[i] : i \in 1..Len(s)}

(***************************************************************************)
(* TextAnalyzer                                                            *)
(***************************************************************************)

\* tokenize (src/index.js:144-150): lowercase, every character that is neither
\* a word character nor whitespace becomes a space, split on whitespace, keep
\* the words longer than 2 that are no stop words.
tokenize(text) ==
    LET low     == toLowerCase(text)
        cleaned == SubSeq([i \in 1..Len(low) |->
                              IF IsWordChar(low[i]) \/ IsSpace(low[i])
                                  THEN low[i] ELSE " "], 1, Len(low))
        KeepWord(word) == Len(word) > 2 /\ word \notin STOP_WORDS
    IN  SelectSeq(splitSpaces(cleaned), KeepWord)

\* The abbreviation rewrites of extractSentences (src/index.js:96-104), in the
\* order the source applies them.
preprocess(text) ==
    replaceAll(
     replaceAll(
      replaceAll(
       replaceAll(
        replaceAll(
         replaceAll(
          replaceAll(
           replaceAll(text, <<"M", "r", ".">>, <<"M", "r">>),
           <<"M", "r", "s", ".">>, <<"M", "r", "s">>),
          <<"D", "r", ".">>, <<"D", "r">>),
         <<"P", "r", "o", "f", ".">>, <<"P", "r", "o", "f">>),
        <<"e", "t", "c", ".">>, <<"e", "t", "c">>),
       <<"e", ".", "g", ".">>, <<"e", "g">>),
      <<"i", ".", "e", ".">>, <<"i", "e">>),
     <<"v", "s", ".">>, <<"v", "s">>)

\* Where /(?<=[.!?])\s+(?=[A-Z])/ matches: a run of whitespace that follows a
\* terminal mark and is followed by a capital letter (src/index.js:107).
IsBoundary(t, i) ==
    /\ i >= 2
    /\ IsSpace(t[i])
    /\ IsTerminal(t[i - 1])
    /\ LET j == SpaceRunEnd(t, i)
       IN  j < Len(t) /\ IsUpper(t[j + 1])

\* preprocessed.split(/(?<=[.!?])\s+(?=[A-Z])/)
RECURSIVE splitSentences(_)
splitSentences(t) ==
    LET bs == {i \in 2..Len(t) : IsBoundary(t, i)}
    IN  IF bs = {} THEN <<t>>
        ELSE LET i == Least(bs)
                 j == SpaceRunEnd(t, i)
             IN  <<SubSeq(t, 1, i - 1)>> \o splitSentences(SubSeq(t, j + 1, Len(t)))

\* The first match of a regular expression of literal characters with the "i"
\* flag: its 0-based offset in t, or -1 (String.prototype.match, match.index).
matchIgnoreCase(t, pat) ==
    LET hits == {i \in 1..(Len(t) - Len(pat) + 1) : OccursAtIgnoreCase(t, i, pat)}
    IN  IF hits = {} THEN -1 ELSE Least(hits) - 1

\* The text findOriginalSentence searches for (src/index.js:126-127): the first
\* five words joined by the three characters \s+ and then escaped as a whole,
\* so the expression matches the joined text literally: a backslash, an s and
\* a plus stand between the words.
originalPattern(processedSentence) ==
    LET ws == splitSpaces(processedSentence)
    IN  join(SubSeq(ws, 1, IF Len(ws) < 5 THEN Len(ws) ELSE 5), <<"\\", "s", "+">>)

\* match.index of findOriginalSentence (src/index.js:128), -1 for no match.
originalMatchIndex(fullText, processedSentence) ==
    matchIgnoreCase(fullText, originalPattern(processedSentence))

\* The first 0-based offset in t of /[.!?](?:\s|$)/, or -1.
sentenceEndIndex(t) ==
    LET hits == {i \in 1..Len(t) :
                    IsTerminal(t[i]) /\ (i = Len(t) \/ IsSpace(t[i + 1]))}
    IN  IF hits = {} THEN -1 ELSE Least(hits) - 1

\* findOriginalSentence with the span cut from a lowercased copy of the text.
findOriginalSentenceLowered(fullText, processedSentence) ==
    LET EndIndex(startIndex, endMatch) ==
            IF endMatch # -1 THEN startIndex + endMatch + 1
            ELSE startIndex + Len(processedSentence)
        Found(startIndex) ==
            IF startIndex # -1
            THEN trim(slice(toLowerCase(fullText), startIndex,
                            EndIndex(startIndex,
                                     sentenceEndIndex(
                                         slice(fullText, startIndex, Len(fullText))))))
            ELSE processedSentence
    IN  Found(originalMatchIndex(fullText, processedSentence))

\* findOriginalSentence (src/index.js:124-139)
findOriginalSentence(fullText, processedSentence) ==
    LET EndIndex(startIndex, endMatch) ==
            IF endMatch # -1 THEN startIndex + endMatch + 1
            ELSE startIndex + Len(processedSentence)
        Found(startIndex) ==
            IF startIndex # -1
            THEN trim(slice(fullText, startIndex,
                            EndIndex(startIndex,
                                     sentenceEndIndex(
                                         slice(fullText, startIndex, Len(fullText))))))
            ELSE processedSentence
    IN  Found(originalMatchIndex(fullText, processedSentence))

\* The pieces of extractSentences before its filter (src/index.js:107-110):
\* the preprocessed text split at the sentence boundaries, each piece trimmed.
trimmedSentences(text) ==
    LET Trimmed(rawSentences) == [i \in 1..Len(rawSentences) |-> trim(rawSentences[i])]
    IN  Trimmed(splitSentences(preprocess(text)))

\* The qualifying pieces of extractSentences (src/index.js:107-111): those of
\* at least MIN_SENTENCE_LENGTH characters.
qualifyingTexts(text) ==
    LET LongEnough(s) == Len(s) >= MIN_SENTENCE_LENGTH
    IN  SelectSeq(trimmedSentences(text), LongEnough)

\* extractSentences (src/index.js:94-119).  index is 0-based, as in the source.
extractSentences(text) ==
    LET Sentences(kept) ==
            [i \in 1..Len(kept) |->
                [text         |-> kept[i],
                 index        |-> i - 1,
                 originalText |-> findOriginalSentence(text, kept[i]),
                 words        |-> tokenize(kept[i]),
                 importance   |-> 0]]
    IN  Sentences(qualifyingTexts(text))

\* How often w occurs in the sequence ws.
Count(w, ws) == Cardinality({i \in 1..Len(ws) : ws[i] = w})

\* calculateTF (src/index.js:155-169).  The map holds each word's count; the
\* division by totalWords (line 165) is done with the other divisions in
\* sentenceScore, so that the fixed point is rounded once.
calculateTF(words) == [w \in Range(words) |-> Count(w, words)]

\* 1000 * Math.log(k), rounded, for k = 1..24.
LnMilli ==
    << 0, 693, 1099, 1386, 1609, 1792, 1946, 2079, 2197, 2303, 2398, 2485,
       2565, 2639, 2708, 2773, 2833, 2890, 2944, 2996, 3045, 3091, 3135, 3178 >>

\* calculateIDF (src/index.js:174-193), in thousandths:
\* Math.log(numSentences / (1 + count)) + 1.
calculateIDF(sentences) ==
    LET numSentences == Len(sentences)
        vocabulary == UNION {Range(sentences[i].words) : i \in 1..Len(sentences)}
        sentenceCount(w) ==
            Cardinality({i \in 1..Len(sentences) : w \in Range(sentences[i].words)})
    IN  [w \in vocabulary |->
            LnMilli[numSentences] - LnMilli[1 + sentenceCount(w)] + 1000]

\* calculateTFIDF (src/index.js:198-207): tf * (idf || 1), as count * idf in
\* thousandths, still to be divided by totalWords.
calculateTFIDF(termFrequency, idf) ==
    [w \in DOMAIN termFrequency |->
        termFrequency[w] * (IF w \in DOMAIN idf THEN idf[w] ELSE 1000)]

\* new TextAnalyzer(text) (src/index.js:82-89)
TextAnalyzer(text) ==
    LET Fields(sentences, words) ==
            [originalText  |-> text,
             sentences     |-> sentences,
             words         |-> words,
             termFrequency |-> calculateTF(words),
             idf           |-> calculateIDF(sentences),
             tfidf         |-> calculateTFIDF(calculateTF(words), calculateIDF(sentences))]
    IN  Fields(extractSentences(text), tokenize(text))

\* \b before the 1-based position i of t (i = Len(t) + 1 is the end).
IsWordAt(t, i) == i >= 1 /\ i <= Len(t) /\ IsWordChar(t[i])

WordBoundary(t, i) == IsWordAt(t, i - 1) # IsWordAt(t, i)

\* Whether /\b(?:w)\b/i matches t somewhere, for a literal w.
HasWholeWordIgnoreCase(t, w) ==
    \E i \in 1..Len(t) :
        /\ OccursAtIgnoreCase(t, i, w)
        /\ WordBoundary(t, i)
        /\ WordBoundary(t, i + Len(w))

\* The sum of a sequence of integers.
RECURSIVE SumSeq(_)
SumSeq(s) == IF s = <<>> THEN 0 ELSE Head(s) + SumSeq(Tail(s))

\* /\d+%?/.test(text): the text holds a digit (src/index.js:237).
HasNumber(text) == \E i \in 1..Len(text) : IsDigit(text[i])

\* text.match(/(?<=\s)[A-Z][a-z]+/g) finds something (src/index.js:240-241).
HasProperNoun(text) ==
    \E i \in 2..(Len(text) - 1) :
        IsSpace(text[i - 1]) /\ IsUpper(text[i]) /\ IsLower(text[i + 1])

\* /\b(?:is|are|refers to|means|defined as)\b/i.test(text) (src/index.js:244)
IsDefinitive(text) ==
    \E w \in {<<"i", "s">>, <<"a", "r", "e">>, <<"r", "e", "f", "e", "r", "s", " ", "t", "o">>, <<"m", "e", "a", "n", "s">>, <<"d", "e", "f", "i", "n", "e", "d", " ", "a", "s">>} :
        HasWholeWordIgnoreCase(text, w)

\* The importance scoreSentences gives one sentence (src/index.js:214-248),
\* in thousandths.
sentenceScore(analyzer, sentence) ==
    LET totalWords == Len(analyzer.words)
        wordCount == Len(sentence.words)
        weights == [i \in 1..wordCount |->
                       IF sentence.words[i] \in DOMAIN analyzer.tfidf
                           THEN analyzer.tfidf[sentence.words[i]] ELSE 0]
        tfidfScore3 ==
            IF totalWords = 0 THEN 0
            ELSE (3 * SumSeq(weights))
                     \div (totalWords * (IF wordCount > 1 THEN wordCount ELSE 1))
        lowerText == toLowerCase(sentence.text)
        indicators == Cardinality({k \in 1..Len(IMPORTANCE_INDICATORS) :
                                      includes(lowerText, IMPORTANCE_INDICATORS[k])})
    IN  tfidfScore3
        + (IF sentence.index < 2 THEN 500 ELSE 0)
        + (IF sentence.index >= Len(analyzer.sentences) - 2 THEN 300 ELSE 0)
        + (IF wordCount >= 8 /\ wordCount <= 25 THEN 400 ELSE 0)
        + 500 * indicators
        + (IF HasNumber(sentence.text) THEN 400 ELSE 0)
        + (IF HasProperNoun(sentence.text) THEN 300 ELSE 0)
        + (IF IsDefinitive(sentence.text) THEN 500 ELSE 0)

\* insertSorted with x put before the elements that compare as equal to it: a
\* sort that does not keep the order of equal elements.
RECURSIVE insertBeforeEqual(_, _)
insertBeforeEqual(sorted, x) ==
    IF sorted = <<>> THEN <<x>>
    ELSE IF Head(sorted).importance > x.importance
         THEN <<Head(sorted)>> \o insertBeforeEqual(Tail(sorted), x)
         ELSE <<x>> \o sorted

\* insertSorted for the comparator (a, b) => a.importance - b.importance:
\* ascending importance.
RECURSIVE insertAscending(_, _)
insertAscending(sorted, x) ==
    IF sorted = <<>> THEN <<x>>
    ELSE IF Head(sorted).importance <= x.importance
         THEN <<Head(sorted)>> \o insertAscending(Tail(sorted), x)
         ELSE <<x>> \o sorted

\* x put into a sequence sorted by descending importance, behind every element
\* that compares as not after it: (a, b) => b.importance - a.importance.
RECURSIVE insertSorted(_, _)
insertSorted(sorted, x) ==
    IF sorted = <<>> THEN <<x>>
    ELSE IF Head(sorted).importance >= x.importance
         THEN <<Head(sorted)>> \o insertSorted(Tail(sorted), x)
         ELSE <<x>> \o sorted

\* A sort that leaves the array as it is.
sortByImportanceKeepingOrder(s) == s

\* Array.prototype.sort with (a, b) => b.importance - a.importance: descending
\* importance, and stable (equal elements keep their order), as ECMAScript
\* requires of sort (src/index.js:251).
RECURSIVE sortByImportance(_)
sortByImportance(s) ==
    IF s = <<>> THEN <<>>
    ELSE insertSorted(sortByImportance(SubSeq(s, 1, Len(s) - 1)), s[Len(s)])

\* scoreSentences (src/index.js:212-252): every sentence of the analyzer's
\* array gets its importance, and the array is sorted in place; the value is
\* the array the analyzer holds afterwards.
scoreSentences(analyzer) ==
    sortByImportance(
        [i \in 1..Len(analyzer.sentences) |->
            [analyzer.sentences[i] EXCEPT
                !.importance = sentenceScore(analyzer, analyzer.sentences[i])]])

(***************************************************************************)
(* FAQGenerator                                                            *)
(***************************************************************************)

\* Where a phrase (literal words with \s+ between them, matched with the "i"
\* flag) that starts at position p of t ends: its last position, or -1.
RECURSIVE phraseEnd(_, _, _)
phraseEnd(t, p, phrase) ==
    IF ~OccursAtIgnoreCase(t, p, phrase[1]) THEN -1
    ELSE LET e == p + Len(phrase[1]) - 1
         IN  IF Len(phrase) = 1 THEN e
             ELSE IF e + 1 <= Len(t) /\ IsSpace(t[e + 1])
                  THEN phraseEnd(t, SpaceRunEnd(t, e + 1) + 1, Tail(phrase))
                  ELSE -1

\* The verb alternatives of CONFIG.QUESTION_PATTERNS (src/index.js:25-34), in
\* the order of the table; an optional s is written as two alternatives.
QUESTION_PATTERNS ==
    << {<<<<"i", "s">>>>, <<<<"a", "r", "e">>>>, <<<<"w", "a", "s">>>>, <<<<"w", "e", "r", "e">>>>},
       {<<<<"h", "a", "s">>>>, <<<<"h", "a", "v", "e">>>>, <<<<"h", "a", "d">>>>},
       {<<<<"c", "a", "n">>>>, <<<<"c", "o", "u", "l", "d">>>>, <<<<"m", "a", "y">>>>, <<<<"m", "i", "g", "h", "t">>>>},
       {<<<<"h", "e", "l", "p">>>>, <<<<"h", "e", "l", "p", "s">>>>, <<<<"a", "s", "s", "i", "s", "t">>>>, <<<<"a", "s", "s", "i", "s", "t", "s">>>>,
        <<<<"e", "n", "a", "b", "l", "e">>>>, <<<<"e", "n", "a", "b", "l", "e", "s">>>>, <<<<"a", "l", "l", "o", "w">>>>, <<<<"a", "l", "l", "o", "w", "s">>>>},
       {<<<<"c", "a", "u", "s", "e">>>>, <<<<"c", "a", "u", "s", "e", "s">>>>, <<<<"l", "e", "a", "d">>, <<"t", "o">>>>, <<<<"l", "e", "a", "d", "s">>, <<"t", "o">>>>,
        <<<<"r", "e", "s", "u", "l", "t">>, <<"i", "n">>>>, <<<<"r", "e", "s", "u", "l", "t", "s">>, <<"i", "n">>>>},
       {<<<<"r", "e", "q", "u", "i", "r", "e">>>>, <<<<"r", "e", "q", "u", "i", "r", "e", "s">>>>, <<<<"n", "e", "e", "d">>>>, <<<<"n", "e", "e", "d", "s">>>>},
       {<<<<"p", "r", "o", "v", "i", "d", "e">>>>, <<<<"p", "r", "o", "v", "i", "d", "e", "s">>>>, <<<<"o", "f", "f", "e", "r">>>>, <<<<"o", "f", "f", "e", "r", "s">>>>,
        <<<<"g", "i", "v", "e">>>>, <<<<"g", "i", "v", "e", "s">>>>},
       {<<<<"i", "n", "c", "l", "u", "d", "e">>>>, <<<<"i", "n", "c", "l", "u", "d", "e", "s">>>>, <<<<"c", "o", "n", "t", "a", "i", "n">>>>, <<<<"c", "o", "n", "t", "a", "i", "n", "s">>>>,
        <<<<"c", "o", "n", "s", "i", "s", "t">>, <<"o", "f">>>>, <<<<"c", "o", "n", "s", "i", "s", "t", "s">>, <<"o", "f">>>>} >>

\* No line break in t[from..to]: what . of a regular expression can match.
NoLineBreak(t, from, to) == \A k \in from..to : t[k] # "\n"

\* Whether /^(.+?)\s+(?:verbs)\s+(.+)$/i matches text with the group (.+?)
\* being text[1..n].
PatternMatchesWith(text, verbs, n) ==
    /\ n >= 1
    /\ NoLineBreak(text, 1, n)
    /\ n + 1 <= Len(text)
    /\ IsSpace(text[n + 1])
    /\ \E a \in (n + 1)..Len(text) :
          /\ \A k \in (n + 1)..a : IsSpace(text[k])
          /\ \E verb \in verbs :
                LET e == phraseEnd(text, a + 1, verb)
                IN  /\ e # -1
                    /\ \E c \in (e + 1)..(Len(text) - 1) :
                          /\ \A k \in (e + 1)..c : IsSpace(text[k])
                          /\ NoLineBreak(text, c + 1, Len(text))

\* The length of match[1] for one pattern: the group (.+?) is lazy, so it is
\* the shortest that lets the rest match; 0 when the pattern does not match.
patternGroupLength(text, verbs) ==
    LET ns == {n \in 1..Len(text) : PatternMatchesWith(text, verbs, n)}
    IN  IF ns = {} THEN 0 ELSE Least(ns)

\* The first element of t.split(/[,;:]/).
beforeSeparator(t) ==
    LET seps == {i \in 1..Len(t) : t[i] \in {",", ";", ":"}}
    IN  IF seps = {} THEN t ELSE SubSeq(t, 1, Least(seps) - 1)

\* text.replace(/^(?:the|a|an)\s+/i, '')
stripLeadingArticle(text) ==
    LET arts == {art \in {<<"t", "h", "e">>, <<"a">>, <<"a", "n">>} :
                    /\ OccursAtIgnoreCase(text, 1, art)
                    /\ Len(art) + 1 <= Len(text)
                    /\ IsSpace(text[Len(art) + 1])}
    IN  IF arts = {} THEN text
        ELSE LET art == CHOOSE x \in arts : TRUE
             IN  SubSeq(text, SpaceRunEnd(text, Len(art) + 1) + 1, Len(text))

\* extractSubject (src/index.js:398-413)
extractSubject(text) ==
    LET Shortened(subject, words) ==
            IF Len(words) > 5 THEN join(SubSeq(words, 1, 5), <<" ">>) ELSE subject
        Subject(subject) == Shortened(subject, splitSpaces(subject))
    IN  Subject(trim(beforeSeparator(stripLeadingArticle(text))))

\* A regular expression \b(?:phrases) with the "i" flag matches t somewhere.
HasPhrase(t, phrases) ==
    \E i \in 1..Len(t) :
        WordBoundary(t, i) /\ \E ph \in phrases : phraseEnd(t, i, ph) # -1

\* /\b(?:is|are|was|were)\s+(?:a|an|the)?\s*(?:type|kind|form|example)/i
IsTypeCue(t) ==
    \E i \in 1..Len(t) :
        /\ WordBoundary(t, i)
        /\ \E verb \in {<<"i", "s">>, <<"a", "r", "e">>, <<"w", "a", "s">>, <<"w", "e", "r", "e">>} :
              /\ OccursAtIgnoreCase(t, i, verb)
              /\ i + Len(verb) <= Len(t)
              /\ IsSpace(t[i + Len(verb)])
              /\ LET p == SpaceRunEnd(t, i + Len(verb)) + 1
                     NounAt(q) == \E noun \in {<<"t", "y", "p", "e">>, <<"k", "i", "n", "d">>, <<"f", "o", "r", "m">>, <<"e", "x", "a", "m", "p", "l", "e">>} :
                                      OccursAtIgnoreCase(t, q, noun)
                 IN  \/ NounAt(p)
                     \/ \E art \in {<<"a">>, <<"a", "n">>, <<"t", "h", "e">>} :
                           /\ OccursAtIgnoreCase(t, p, art)
                           /\ LET q == p + Len(art)
                              IN  NounAt(IF q <= Len(t) /\ IsSpace(t[q])
                                         THEN SpaceRunEnd(t, q) + 1 ELSE q)

\* The end of the run of digits that starts at i.
DigitRunEnd(t, i) ==
    CHOOSE j \in i..Len(t) :
        /\ \A k \in i..j : IsDigit(t[k])
        /\ j = Len(t) \/ ~IsDigit(t[j + 1])

\* /\bpercent|%|\b\d+\s*(?:times|percent|million|billion)/i
IsQuantityCue(t) ==
    \/ HasPhrase(t, {<<<<"p", "e", "r", "c", "e", "n", "t">>>>})
    \/ includes(t, <<"%">>)
    \/ \E i \in 1..Len(t) :
          /\ WordBoundary(t, i)
          /\ IsDigit(t[i])
          /\ LET q == DigitRunEnd(t, i) + 1
                 p == IF q <= Len(t) /\ IsSpace(t[q]) THEN SpaceRunEnd(t, q) + 1 ELSE q
             IN  \E unit \in {<<"t", "i", "m", "e", "s">>, <<"p", "e", "r", "c", "e", "n", "t">>, <<"m", "i", "l", "l", "i", "o", "n">>, <<"b", "i", "l", "l", "i", "o", "n">>} :
                     OccursAtIgnoreCase(t, p, unit)

\* formatQuestion with one template for every text.
formatQuestionGenericOnly(text, subject) ==
    <<"W", "h", "a", "t", " ", "i", "s", " ", "i", "m", "p", "o", "r", "t", "a", "n", "t", " ", "t", "o", " ", "k", "n", "o", "w", " ", "a", "b", "o", "u", "t", " ">> \o subject \o <<"?">>

\* formatQuestion with the process cue tested before the others.
formatQuestionProcessFirst(text, subject) ==
    IF HasPhrase(text, {<<<<"p", "r", "o", "c", "e", "s", "s">>>>, <<<<"m", "e", "t", "h", "o", "d">>>>, <<<<"w", "a", "y">>>>, <<<<"a", "p", "p", "r", "o", "a", "c", "h">>>>,
                        <<<<"t", "e", "c", "h", "n", "i", "q", "u", "e">>>>})
        THEN <<"W", "h", "a", "t", " ", "i", "s", " ", "t", "h", "e", " ", "p", "r", "o", "c", "e", "s", "s", " ", "o", "r", " ", "m", "e", "t", "h", "o", "d", " ", "f", "o", "r", " ">> \o subject \o <<"?">>
    ELSE IF IsTypeCue(text)
        THEN <<"W", "h", "a", "t", " ", "t", "y", "p", "e", " ", "i", "s", " ">> \o subject \o <<"?">>
    ELSE IF IsQuantityCue(text)
        THEN <<"W", "h", "a", "t", " ", "i", "s", " ", "t", "h", "e", " ", "q", "u", "a", "n", "t", "i", "t", "y", " ", "o", "r", " ", "p", "e", "r", "c", "e", "n", "t", "a", "g", "e", " ", "r", "e", "l", "a", "t", "e", "d", " ", "t", "o", " ">> \o subject \o <<"?">>
    ELSE IF HasPhrase(text, {<<<<"c", "a", "u", "s", "e">>>>, <<<<"l", "e", "a", "d">>, <<"t", "o">>>>, <<<<"l", "e", "a", "d", "s">>, <<"t", "o">>>>,
                             <<<<"r", "e", "s", "u", "l", "t">>, <<"i", "n">>>>, <<<<"r", "e", "s", "u", "l", "t", "s">>, <<"i", "n">>>>})
        THEN <<"W", "h", "a", "t", " ", "a", "r", "e", " ", "t", "h", "e", " ", "e", "f", "f", "e", "c", "t", "s", " ", "o", "r", " ", "r", "e", "s", "u", "l", "t", "s", " ", "o", "f", " ">> \o subject \o <<"?">>
    ELSE IF HasPhrase(text, {<<<<"b", "e", "c", "a", "u", "s", "e">>>>, <<<<"s", "i", "n", "c", "e">>>>, <<<<"d", "u", "e">>, <<"t", "o">>>>, <<<<"r", "e", "a", "s", "o", "n">>>>})
        THEN <<"W", "h", "y", " ", "i", "s", " ">> \o subject \o <<" ", "s", "i", "g", "n", "i", "f", "i", "c", "a", "n", "t", "?">>
    ELSE IF HasPhrase(text, {<<<<"h", "e", "l", "p">>>>, <<<<"e", "n", "a", "b", "l", "e">>>>, <<<<"a", "l", "l", "o", "w">>>>, <<<<"s", "u", "p", "p", "o", "r", "t">>>>})
        THEN <<"H", "o", "w", " ", "d", "o", "e", "s", " ">> \o subject \o <<" ", "h", "e", "l", "p", " ", "o", "r", " ", "e", "n", "a", "b", "l", "e", " ", "o", "u", "t", "c", "o", "m", "e", "s", "?">>
    ELSE IF HasPhrase(text, {<<<<"r", "e", "q", "u", "i", "r", "e">>>>, <<<<"n", "e", "e", "d">>>>, <<<<"m", "u", "s", "t">>>>, <<<<"s", "h", "o", "u", "l", "d">>>>})
        THEN <<"W", "h", "a", "t", " ", "a", "r", "e", " ", "t", "h", "e", " ", "r", "e", "q", "u", "i", "r", "e", "m", "e", "n", "t", "s", " ", "f", "o", "r", " ">> \o subject \o <<"?">>
    ELSE IF HasPhrase(text, {<<<<"i", "n", "c", "l", "u", "d", "e">>>>, <<<<"c", "o", "n", "t", "a", "i", "n">>>>, <<<<"c", "o", "n", "s", "i", "s", "t">>>>, <<<<"c", "o", "m", "p", "r", "i", "s", "e">>>>})
        THEN <<"W", "h", "a", "t", " ", "d", "o", "e", "s", " ">> \o subject \o <<" ", "i", "n", "c", "l", "u", "d", "e", " ", "o", "r", " ", "c", "o", "n", "t", "a", "i", "n", "?">>
    ELSE IF HasPhrase(text, {<<<<"l", "o", "c", "a", "t", "e", "d">>>>, <<<<"f", "o", "u", "n", "d">>>>, <<<<"e", "x", "i", "s", "t">>>>, <<<<"o", "c", "c", "u", "r">>>>})
        THEN <<"W", "h", "e", "r", "e", " ", "o", "r", " ", "w", "h", "e", "n", " ", "d", "o", "e", "s", " ">> \o subject \o <<" ", "o", "c", "c", "u", "r", "?">>
    ELSE <<"W", "h", "a", "t", " ", "s", "h", "o", "u", "l", "d", " ", "b", "e", " ", "k", "n", "o", "w", "n", " ", "a", "b", "o", "u", "t", " ">> \o subject \o <<"?">>

\* formatQuestion (src/index.js:418-460): the template of the first content
\* cue that matches the text, else the default format.
formatQuestion(text, subject) ==
    IF IsTypeCue(text)
        THEN <<"W", "h", "a", "t", " ", "t", "y", "p", "e", " ", "i", "s", " ">> \o subject \o <<"?">>
    ELSE IF IsQuantityCue(text)
        THEN <<"W", "h", "a", "t", " ", "i", "s", " ", "t", "h", "e", " ", "q", "u", "a", "n", "t", "i", "t", "y", " ", "o", "r", " ", "p", "e", "r", "c", "e", "n", "t", "a", "g", "e", " ", "r", "e", "l", "a", "t", "e", "d", " ", "t", "o", " ">> \o subject \o <<"?">>
    ELSE IF HasPhrase(text, {<<<<"c", "a", "u", "s", "e">>>>, <<<<"l", "e", "a", "d">>, <<"t", "o">>>>, <<<<"l", "e", "a", "d", "s">>, <<"t", "o">>>>,
                             <<<<"r", "e", "s", "u", "l", "t">>, <<"i", "n">>>>, <<<<"r", "e", "s", "u", "l", "t", "s">>, <<"i", "n">>>>})
        THEN <<"W", "h", "a", "t", " ", "a", "r", "e", " ", "t", "h", "e", " ", "e", "f", "f", "e", "c", "t", "s", " ", "o", "r", " ", "r", "e", "s", "u", "l", "t", "s", " ", "o", "f", " ">> \o subject \o <<"?">>
    ELSE IF HasPhrase(text, {<<<<"b", "e", "c", "a", "u", "s", "e">>>>, <<<<"s", "i", "n", "c", "e">>>>, <<<<"d", "u", "e">>, <<"t", "o">>>>, <<<<"r", "e", "a", "s", "o", "n">>>>})
        THEN <<"W", "h", "y", " ", "i", "s", " ">> \o subject \o <<" ", "s", "i", "g", "n", "i", "f", "i", "c", "a", "n", "t", "?">>
    ELSE IF HasPhrase(text, {<<<<"h", "e", "l", "p">>>>, <<<<"e", "n", "a", "b", "l", "e">>>>, <<<<"a", "l", "l", "o", "w">>>>, <<<<"s", "u", "p", "p", "o", "r", "t">>>>})
        THEN <<"H", "o", "w", " ", "d", "o", "e", "s", " ">> \o subject \o <<" ", "h", "e", "l", "p", " ", "o", "r", " ", "e", "n", "a", "b", "l", "e", " ", "o", "u", "t", "c", "o", "m", "e", "s", "?">>
    ELSE IF HasPhrase(text, {<<<<"r", "e", "q", "u", "i", "r", "e">>>>, <<<<"n", "e", "e", "d">>>>, <<<<"m", "u", "s", "t">>>>, <<<<"s", "h", "o", "u", "l", "d">>>>})
        THEN <<"W", "h", "a", "t", " ", "a", "r", "e", " ", "t", "h", "e", " ", "r", "e", "q", "u", "i", "r", "e", "m", "e", "n", "t", "s", " ", "f", "o", "r", " ">> \o subject \o <<"?">>
    ELSE IF HasPhrase(text, {<<<<"i", "n", "c", "l", "u", "d", "e">>>>, <<<<"c", "o", "n", "t", "a", "i", "n">>>>, <<<<"c", "o", "n", "s", "i", "s", "t">>>>, <<<<"c", "o", "m", "p", "r", "i", "s", "e">>>>})
        THEN <<"W", "h", "a", "t", " ", "d", "o", "e", "s", " ">> \o subject \o <<" ", "i", "n", "c", "l", "u", "d", "e", " ", "o", "r", " ", "c", "o", "n", "t", "a", "i", "n", "?">>
    ELSE IF HasPhrase(text, {<<<<"l", "o", "c", "a", "t", "e", "d">>>>, <<<<"f", "o", "u", "n", "d">>>>, <<<<"e", "x", "i", "s", "t">>>>, <<<<"o", "c", "c", "u", "r">>>>})
        THEN <<"W", "h", "e", "r", "e", " ", "o", "r", " ", "w", "h", "e", "n", " ", "d", "o", "e", "s", " ">> \o subject \o <<" ", "o", "c", "c", "u", "r", "?">>
    ELSE IF HasPhrase(text, {<<<<"p", "r", "o", "c", "e", "s", "s">>>>, <<<<"m", "e", "t", "h", "o", "d">>>>, <<<<"w", "a", "y">>>>, <<<<"a", "p", "p", "r", "o", "a", "c", "h">>>>,
                             <<<<"t", "e", "c", "h", "n", "i", "q", "u", "e">>>>})
        THEN <<"W", "h", "a", "t", " ", "i", "s", " ", "t", "h", "e", " ", "p", "r", "o", "c", "e", "s", "s", " ", "o", "r", " ", "m", "e", "t", "h", "o", "d", " ", "f", "o", "r", " ">> \o subject \o <<"?">>
    ELSE <<"W", "h", "a", "t", " ", "s", "h", "o", "u", "l", "d", " ", "b", "e", " ", "k", "n", "o", "w", "n", " ", "a", "b", "o", "u", "t", " ">> \o subject \o <<"?">>

\* generateQuestion (src/index.js:375-393)
generateQuestion(sentence) ==
    LET st == sentence.text
        Question(text, matching) ==
            IF matching # {}
            THEN formatQuestion(
                     text,
                     extractSubject(
                         trim(SubSeq(text, 1,
                                     patternGroupLength(
                                         text, QUESTION_PATTERNS[Least(matching)])))))
            ELSE <<"W", "h", "a", "t", " ", "i", "s", " ", "i", "m", "p", "o", "r", "t", "a", "n", "t", " ", "t", "o", " ", "k", "n", "o", "w", " ", "a", "b", "o", "u", "t", " ">>
                     \o toLowerCase(extractSubject(text)) \o <<"?">>
        Matching(text) ==
            Question(text, {k \in 1..Len(QUESTION_PATTERNS) :
                               patternGroupLength(text, QUESTION_PATTERNS[k]) > 0})
    IN  Matching(trim(IF st # <<>> /\ IsTerminal(st[Len(st)])
                          THEN SubSeq(st, 1, Len(st) - 1) ELSE st))

\* generateAnswer giving the span recovered from the raw document.
generateAnswerFromOriginal(sentence) == sentence.originalText

\* generateAnswer (src/index.js:465-468)
generateAnswer(sentence) == sentence.text

\* What createFAQ returns for null.
Null == [null |-> TRUE]

\* createFAQ (src/index.js:356-370)
createFAQ(sentence, number) ==
    LET FAQ(question, answer) ==
            IF question = <<>> \/ answer = <<>> THEN Null
            ELSE [number      |-> number,
                  question    |-> question,
                  answer      |-> answer,
                  reference   |-> IF sentence.originalText # <<>>
                                     THEN sentence.originalText ELSE sentence.text,
                  sourceIndex |-> sentence.index]
    IN  FAQ(generateQuestion(sentence), generateAnswer(sentence))

\* calculateSimilarity (src/index.js:345-351): the quotient
\* intersection.size / union.size, kept as its two terms.  With both word sets
\* empty the source divides 0 by 0 and the value is NaN.
calculateSimilarity(words1, words2) ==
    LET set1 == Range(words1)
        set2 == Range(words2)
    IN  [intersection |-> Cardinality(set1 \cap set2),
         union        |-> Cardinality(set1 \cup set2)]

IsNaN(similarity) == similarity.union = 0

\* similarity > 0.5 in JavaScript: false for NaN.
GreaterThanHalf(similarity) ==
    ~IsNaN(similarity) /\ 2 * similarity.intersection > similarity.union

\* similarity <= 0.5 in JavaScript: false for NaN.
AtMostHalf(similarity) ==
    ~IsNaN(similarity) /\ 2 * similarity.intersection <= similarity.union

\* isTooSimilar (src/index.js:331-340)
isTooSimilar(sentence, selectedSentences) ==
    \E selected \in selectedSentences :
        GreaterThanHalf(calculateSimilarity(sentence.words, selected.words))

\* scoredSentences.find(s => s.index === i)
findByIndex(scoredSentences, i) ==
    scoredSentences[Least({k \in 1..Len(scoredSentences) : scoredSentences[k].index = i})]

\* The first loop of generate (src/index.js:292-309) from position k on: the
\* strict pass.
RECURSIVE strictPass(_, _, _, _)
strictPass(scoredSentences, k, faqs, usedSentences) ==
    IF k > Len(scoredSentences) \/ Len(faqs) >= FAQ_COUNT
    THEN [faqs |-> faqs, usedSentences |-> usedSentences]
    ELSE LET sentence == scoredSentences[k]
             selected == {findByIndex(scoredSentences, i) : i \in usedSentences}
             Step(faq) ==
                 IF \/ sentence.index \in usedSentences
                    \/ isTooSimilar(sentence, selected)
                    \/ faq = Null
                 THEN strictPass(scoredSentences, k + 1, faqs, usedSentences)
                 ELSE strictPass(scoredSentences, k + 1, Append(faqs, faq),
                                 usedSentences \cup {sentence.index})
         IN  Step(createFAQ(sentence, Len(faqs) + 1))

\* relaxedPass without the check of usedSentences.
RECURSIVE relaxedPassAnySentence(_, _, _, _)
relaxedPassAnySentence(scoredSentences, k, faqs, usedSentences) ==
    IF k > Len(scoredSentences) \/ Len(faqs) >= FAQ_COUNT
    THEN [faqs |-> faqs, usedSentences |-> usedSentences]
    ELSE LET sentence == scoredSentences[k]
             Step(faq) ==
                 IF faq = Null
                 THEN relaxedPassAnySentence(scoredSentences, k + 1, faqs, usedSentences)
                 ELSE relaxedPassAnySentence(scoredSentences, k + 1, Append(faqs, faq),
                                             usedSentences \cup {sentence.index})
         IN  Step(createFAQ(sentence, Len(faqs) + 1))

\* relaxedPass with the similarity check of the first loop.
RECURSIVE relaxedPassCheckingSimilarity(_, _, _, _)
relaxedPassCheckingSimilarity(scoredSentences, k, faqs, usedSentences) ==
    IF k > Len(scoredSentences) \/ Len(faqs) >= FAQ_COUNT
    THEN [faqs |-> faqs, usedSentences |-> usedSentences]
    ELSE LET sentence == scoredSentences[k]
             selected == {findByIndex(scoredSentences, i) : i \in usedSentences}
             Step(faq) ==
                 IF \/ sentence.index \in usedSentences
                    \/ isTooSimilar(sentence, selected)
                    \/ faq = Null
                 THEN relaxedPassCheckingSimilarity(scoredSentences, k + 1, faqs,
                                                    usedSentences)
                 ELSE relaxedPassCheckingSimilarity(scoredSentences, k + 1,
                                                    Append(faqs, faq),
                                                    usedSentences \cup {sentence.index})
         IN  Step(createFAQ(sentence, Len(faqs) + 1))

\* The second loop of generate (src/index.js:313-322) from position k on: the
\* pass that does not look at similarity.
RECURSIVE relaxedPass(_, _, _, _)
relaxedPass(scoredSentences, k, faqs, usedSentences) ==
    IF k > Len(scoredSentences) \/ Len(faqs) >= FAQ_COUNT
    THEN [faqs |-> faqs, usedSentences |-> usedSentences]
    ELSE LET sentence == scoredSentences[k]
             Step(faq) ==
                 IF sentence.index \in usedSentences \/ faq = Null
                 THEN relaxedPass(scoredSentences, k + 1, faqs, usedSentences)
                 ELSE relaxedPass(scoredSentences, k + 1, Append(faqs, faq),
                                  usedSentences \cup {sentence.index})
         IN  Step(createFAQ(sentence, Len(faqs) + 1))

\* generate without its second loop.
selectFAQsStrictOnly(scoredSentences) == strictPass(scoredSentences, 1, <<>>, {}).faqs

\* The FAQs of generate (src/index.js:289-325) for the scored sentences.
selectFAQs(scoredSentences) ==
    LET Rest(first) ==
            IF Len(first.faqs) < FAQ_COUNT
            THEN relaxedPass(scoredSentences, 1, first.faqs, first.usedSentences).faqs
            ELSE first.faqs
    IN  Rest(strictPass(scoredSentences, 1, <<>>, {}))

\* generate (src/index.js:287-326): the FAQs it returns.  It also leaves the
\* analyzer's sentences scored and sorted (scoreSentences works in place).
generate(analyzer) == selectFAQs(scoreSentences(analyzer))

(***************************************************************************)
(* UIController: the input gate and the generate handler                   *)
(***************************************************************************)

\* The first 1-based position at or after i of t that holds no terminal mark,
\* Len(t) + 1 if there is none.
TerminalRunEnd(t, i) ==
    CHOOSE j \in i..Len(t) :
        /\ \A k \in i..j : IsTerminal(t[k])
        /\ j = Len(t) \/ ~IsTerminal(t[j + 1])

\* t.split(/[.!?]+/)
RECURSIVE splitTerminals(_)
splitTerminals(t) ==
    LET ts == {i \in 1..Len(t) : IsTerminal(t[i])}
    IN  IF ts = {} THEN <<t>>
        ELSE LET i == Least(ts)
                 j == TerminalRunEnd(t, i)
             IN  <<SubSeq(t, 1, i - 1)>> \o splitTerminals(SubSeq(t, j + 1, Len(t)))

\* The sentences validateInput counts (src/index.js:732-733) for the value of
\* the textarea.
gateSentences(value) ==
    LET text == trim(value)
        LongEnough(s) == Len(trim(s)) >= MIN_SENTENCE_LENGTH
    IN  SelectSeq(splitTerminals(text), LongEnough)

\* isValid of validateInput (src/index.js:734)
isValid(value) == Len(gateSentences(value)) >= MIN_SENTENCES

\* handleGenerate without its check of the sentence count.
notEnoughSentencesUnchecked(analyzer) == FALSE

\* The condition under which handleGenerate throws the insufficient-content
\* error (src/index.js:776-778).
notEnoughSentences(analyzer) == Len(analyzer.sentences) < MIN_SENTENCES

\* The toasts of handleGenerate (src/index.js:777, 785, 790, 794).
NotEnoughToast ==
    [type |-> "error", message |-> "Not enough valid sentences found in the document."]

WarningToast(n) ==
    [type |-> "warning",
     message |-> "Generated n FAQs. Document may need more diverse content for 5 FAQs.",
     n |-> n]

SuccessToast ==
    [type |-> "success", message |-> "Successfully generated FAQs from source document!"]

(***************************************************************************)
(* The documents of the model                                              *)
(***************************************************************************)

\* The sentences documents are made of.  They hold: a sentence of exactly 20
\* characters and one of 19, an abbreviation, a word in capitals that a later
\* one-word sentence repeats, two sentences that share most of their words,
\* two sentences without any token, and a sentence that starts in lower case
\* (no boundary of the Segmenter before it).
Pool ==
    << <<"B", "a", "c", "k", "u", "p", "s", " ", "r", "u", "n", " ", "n", "i", "g", "h", "t", "l", "y", ".">>,
       <<" ", "\n", "D", "r", ".", " ", "S", "m", "i", "t", "h", " ", "p", "r", "a", "i", "s", "e", "d", " ", "I", "N", "T", "E", "R", "N", "A", "T", "I", "O", "N", "A", "L", "I", "Z", "A", "T", "I", "O", "N", ".">>,
       <<"T", "h", "e", " ", "f", "i", "r", "e", "w", "a", "l", "l", " ", "b", "l", "o", "c", "k", "s", " ", "u", "n", "w", "a", "n", "t", "e", "d", " ", "n", "e", "t", "w", "o", "r", "k", " ", "t", "r", "a", "f", "f", "i", "c", ".">>,
       <<"T", "h", "e", " ", "f", "i", "r", "e", "w", "a", "l", "l", " ", "b", "l", "o", "c", "k", "s", " ", "u", "n", "w", "a", "n", "t", "e", "d", " ", "n", "e", "t", "w", "o", "r", "k", " ", "p", "a", "c", "k", "e", "t", "s", ".">>,
       <<"I", "t", " ", "i", "s", " ", "w", "h", "a", "t", " ", "i", "t", " ", "i", "s", " ", "t", "o", " ", "u", "s", ".">>,
       <<"S", "o", " ", "i", "t", " ", "i", "s", " ", "a", "s", " ", "i", "t", " ", "i", "s", " ", "n", "o", "w", ".">>,
       <<"I", "n", "t", "e", "r", "n", "a", "t", "i", "o", "n", "a", "l", "i", "z", "a", "t", "i", "o", "n", ".">>,
       <<"a", "n", "d", " ", "l", "o", "g", "s", " ", "a", "r", "e", " ", "k", "e", "p", "t", " ", "f", "o", "r", " ", "9", "0", " ", "d", "a", "y", "s", ".">>,
       <<"A", "u", "d", "i", "t", "s", " ", "r", "u", "n", " ", "m", "o", "n", "t", "h", "l", "y", ".">> >>

\* The most sentences of the pool one document holds.
MaxDocSentences == 6

\* The sentences of the pool with the positions in S, in the pool's order,
\* with one space between two.
RECURSIVE DocOf(_)
DocOf(S) ==
    IF S = {} THEN <<>>
    ELSE LET i == Least(S)
         IN  IF S = {i} THEN Pool[i] ELSE Pool[i] \o <<" ">> \o DocOf(S \ {i})

\* The documents given to the analyzer: every choice of at most
\* MaxDocSentences sentences of the pool.
Docs ==
    {DocOf(S) : S \in {T \in SUBSET (1..Len(Pool)) : Cardinality(T) <= MaxDocSentences}}

\* The documents typed or pasted into the textarea: the empty one, and the
\* runs of neighbours of the pool that hold one sentence less than
\* MIN_SENTENCES up to MaxDocSentences sentences.
InputDocs ==
    {<<>>} \cup
    {DocOf(w[1]..w[2]) :
        w \in {v \in (1..Len(Pool)) \X (1..Len(Pool)) :
                  /\ v[2] - v[1] + 1 >= MIN_SENTENCES - 1
                  /\ v[2] - v[1] + 1 <= MaxDocSentences}}

(***************************************************************************)
(* State                                                                   *)
(***************************************************************************)
VARIABLES
    sourceDocument,  \* elements.sourceDocument.value, the textarea
    charCount,       \* the number elements.charCount shows
    reqLength,       \* elements.reqLength: [met, count]
    generateBtn,     \* elements.generateBtn: [disabled, loading]
    emptyState,      \* elements.emptyState: "shown" or "hidden"
    outputSection,   \* elements.outputSection: "hidden" or "visible"
    faqGrid,         \* elements.faqGrid: the FAQs of the cards it holds
    state,           \* the state object (src/index.js:70-76)
    toasts,          \* the toasts the latest handler has shown
    event,           \* the latest handler and how it ended
    filePanel,       \* fileDropZone, fileLoading, fileInfo, fileName, fileSize
    fileInput,       \* elements.fileInput.value: the name of the chosen file
    upload,          \* the file whose parsing handleFileUpload awaits
    effect,          \* what the latest handler selected, downloaded or copied
    work,            \* the methods the latest run has called so far, in order
    suspended,       \* how many calls of handleGenerate wait at their await
    renderedFrom,    \* the text the FAQs of state.faqs were generated from
    analyzer,        \* a TextAnalyzer a caller of the classes holds
    results          \* what generate returned on it, call by call

vars ==
    << sourceDocument, charCount, reqLength, generateBtn, emptyState,
       outputSection, faqGrid, state, toasts, event, filePanel, fileInput,
       upload, effect, work, suspended, renderedFrom, analyzer, results >>

uiVars ==
    << sourceDocument, charCount, reqLength, generateBtn, emptyState,
       outputSection, faqGrid, state, toasts, event, filePanel, fileInput,
       upload, effect, work, suspended, renderedFrom >>

\* The file panel, and the file handleFileUpload is busy with.
fileVars == << filePanel, fileInput, upload >>

\* The page as the script finds it: an empty textarea, nothing generated, no
\* file.  The markup is not among the sources; the generate button and the
\* requirement line start as validateInput sets them for the empty textarea,
\* and the file panel as removeFile leaves it.
UIInit ==
    /\ sourceDocument = <<>>
    /\ charCount = 0
    /\ reqLength = [met |-> FALSE, count |-> 0]
    /\ generateBtn = [disabled |-> TRUE, loading |-> FALSE]
    /\ emptyState = "shown"
    /\ outputSection = "hidden"
    /\ faqGrid = <<>>
    /\ state = [sourceText   |-> <<>>,
                sentences    |-> <<>>,
                faqs         |-> <<>>,
                isGenerating |-> FALSE,
                currentFile  |-> Null]
    /\ toasts = <<>>
    /\ event = "load"
    /\ filePanel = [fileDropZone |-> "shown", fileLoading |-> "hidden",
                    fileInfo |-> "hidden", fileName |-> <<>>, fileSize |-> <<>>]
    /\ fileInput = <<>>
    /\ upload = Null
    /\ effect = Null
    /\ work = <<>>
    /\ suspended = 0
    /\ renderedFrom = Null

Init ==
    /\ UIInit
    /\ analyzer = Null
    /\ results = <<>>

\* What validateInput (src/index.js:731-757) leaves in the requirement line
\* and the generate button for the textarea value.
ValidateInput(value) ==
    LET count == Len(gateSentences(value))
    IN  /\ reqLength' = [met |-> count >= MIN_SENTENCES, count |-> count]
        /\ generateBtn' = [generateBtn EXCEPT !.disabled = ~(count >= MIN_SENTENCES)]

\* The input listener of the textarea (src/index.js:600-603): the user has
\* typed or pasted, and the textarea holds d.
OnInput ==
    \E d \in InputDocs :
        /\ d # sourceDocument
        /\ sourceDocument' = d
        /\ charCount' = Len(d)
        /\ ValidateInput(d)
        /\ toasts' = <<>>
        /\ event' = "input"
        /\ effect' = Null
        /\ UNCHANGED <<emptyState, outputSection, faqGrid, state, fileVars, work, suspended,
                       renderedFrom, analyzer, results>>

\* handleGenerate up to its await without the test of state.isGenerating.
HandleGenerateUnguarded ==
    /\ ~generateBtn.disabled
    /\ toasts' = <<>>
    /\ IF ~isValid(sourceDocument)
       THEN /\ event' = "generate:invalid"
            /\ ValidateInput(sourceDocument)
            /\ UNCHANGED <<emptyState, state, work, suspended>>
       ELSE /\ event' = "generate:started"
            /\ reqLength' = [met |-> TRUE, count |-> Len(gateSentences(sourceDocument))]
            /\ generateBtn' = [disabled |-> FALSE, loading |-> TRUE]
            /\ emptyState' = "hidden"
            /\ state' = [state EXCEPT !.isGenerating = TRUE,
                                      !.sourceText = trim(sourceDocument)]
            /\ work' = <<>>
            /\ suspended' = suspended + 1
    /\ effect' = Null
    /\ UNCHANGED <<sourceDocument, charCount, outputSection, faqGrid, fileVars,
                   renderedFrom, analyzer, results>>

\* handleGenerate up to its await (src/index.js:759-770): a click on the
\* generate button, which a disabled button does not deliver.
HandleGenerate ==
    /\ ~generateBtn.disabled
    /\ toasts' = <<>>
    /\ IF state.isGenerating
       THEN /\ event' = "generate:busy"
            /\ UNCHANGED <<reqLength, generateBtn, emptyState, state, work, suspended>>
       ELSE IF ~isValid(sourceDocument)
       THEN /\ event' = "generate:invalid"
            /\ ValidateInput(sourceDocument)
            /\ UNCHANGED <<emptyState, state, work, suspended>>
       ELSE /\ event' = "generate:started"
            /\ reqLength' = [met |-> TRUE, count |-> Len(gateSentences(sourceDocument))]
            /\ generateBtn' = [disabled |-> FALSE, loading |-> TRUE]
            /\ emptyState' = "hidden"
            /\ state' = [state EXCEPT !.isGenerating = TRUE,
                                      !.sourceText = trim(sourceDocument)]
            /\ work' = <<>>
            /\ suspended' = suspended + 1
    /\ effect' = Null
    /\ UNCHANGED <<sourceDocument, charCount, outputSection, faqGrid, fileVars,
                   renderedFrom, analyzer, results>>

\* The methods the constructor of TextAnalyzer calls, in order
\* (src/index.js:82-89): the sentences, the tokens, and the term weights.
constructorCalls ==
    <<"extractSentences", "tokenize", "calculateTF", "calculateIDF", "calculateTFIDF">>

\* A run that scores the sentences before it checks their number.
runCallsScoringFirst(textAnalyzer) ==
    constructorCalls \o <<"generate", "scoreSentences">>
        \o (IF notEnoughSentences(textAnalyzer) THEN <<"throw">> ELSE <<"renderFAQs">>)

\* The methods a run calls after the delay, in order (src/index.js:772-790):
\* the constructor of the analyzer, then either the throw of the check, or
\* generate, which starts with scoreSentences, and renderFAQs.
runCalls(textAnalyzer) ==
    constructorCalls
        \o (IF notEnoughSentences(textAnalyzer) THEN <<"throw">>
            ELSE <<"generate", "scoreSentences", "renderFAQs">>)

\* handleGenerate after the delay with the statements of the finally block at
\* the end of the try block: a thrown error skips them.
HandleGenerateAfterDelayWithoutFinally ==
    /\ suspended > 0
    /\ suspended' = suspended - 1
    /\ LET Rendered(faqs) ==
               /\ state' = [state EXCEPT !.faqs = faqs, !.isGenerating = FALSE]
               /\ generateBtn' = [generateBtn EXCEPT !.loading = FALSE]
               /\ faqGrid' = faqs
               /\ outputSection' = "visible"
               /\ toasts' = (IF Len(faqs) < FAQ_COUNT
                                 THEN <<WarningToast(Len(faqs))>> ELSE <<>>)
                                \o <<SuccessToast>>
               /\ event' = "generate:rendered"
               /\ renderedFrom' = state.sourceText
           Failed ==
               /\ toasts' = <<NotEnoughToast>>
               /\ event' = "generate:failed"
               /\ UNCHANGED <<state, generateBtn, outputSection, faqGrid, renderedFrom>>
           Run(textAnalyzer) ==
               /\ work' = runCalls(textAnalyzer)
               /\ IF notEnoughSentences(textAnalyzer) THEN Failed
                  ELSE Rendered(generate(textAnalyzer))
       IN  Run(TextAnalyzer(state.sourceText))
    /\ effect' = Null
    /\ UNCHANGED <<sourceDocument, charCount, reqLength, emptyState, fileVars,
                   analyzer, results>>

\* The text of the textarea as it is when the delay has elapsed.
analysedTextOfTextarea == trim(sourceDocument)

\* The text handleGenerate gives to the constructor of TextAnalyzer after the
\* delay (src/index.js:774): the one stored when the request was accepted.
analysedText == state.sourceText

\* handleGenerate after the delay (src/index.js:772-798): analysis, the check
\* of the sentence count, generation, rendering, and the finally block.
HandleGenerateAfterDelay ==
    /\ suspended > 0
    /\ suspended' = suspended - 1
    /\ LET Rendered(faqs) ==
               /\ state' = [state EXCEPT !.faqs = faqs, !.isGenerating = FALSE]
               /\ faqGrid' = faqs
               /\ outputSection' = "visible"
               /\ toasts' = (IF Len(faqs) < FAQ_COUNT
                                 THEN <<WarningToast(Len(faqs))>> ELSE <<>>)
                                \o <<SuccessToast>>
               /\ event' = "generate:rendered"
               /\ renderedFrom' = analysedText
           Failed ==
               /\ toasts' = <<NotEnoughToast>>
               /\ event' = "generate:failed"
               /\ state' = [state EXCEPT !.isGenerating = FALSE]
               /\ UNCHANGED <<outputSection, faqGrid, renderedFrom>>
           Run(textAnalyzer) ==
               /\ work' = runCalls(textAnalyzer)
               /\ IF notEnoughSentences(textAnalyzer) THEN Failed
                  ELSE Rendered(generate(textAnalyzer))
       IN  Run(TextAnalyzer(analysedText))
    /\ generateBtn' = [generateBtn EXCEPT !.loading = FALSE]
    /\ effect' = Null
    /\ UNCHANGED <<sourceDocument, charCount, reqLength, emptyState, fileVars,
                   analyzer, results>>

Next ==
    \/ OnInput
    \/ HandleGenerate
    \/ HandleGenerateAfterDelay

Spec == Init /\ [][Next]_vars

\* The timeout of delay fires (src/index.js:929-931, setTimeout resolves the
\* promise after 300 ms) and a call of handleGenerate that waits at its await
\* goes on: the steps of HandleGenerateAfterDelay, and no others, are such.
DelayElapses == suspended > 0 /\ suspended' = suspended - 1

\* The page with its timer: a timeout that is set fires.
FairSpec == Init /\ [][Next]_vars /\ WF_suspended(DelayElapses)

(***************************************************************************)
(* The classes called directly: one analyzer per document, and generate    *)
(* called on it again and again.                                           *)
(***************************************************************************)

\* How often generate is called on one analyzer.
MaxGenerateCalls == 2

CoreInit ==
    /\ UIInit
    /\ analyzer \in {TextAnalyzer(d) : d \in Docs}
    /\ results = <<>>

\* generator.generate() (src/index.js:287-326) on the analyzer: the FAQs it
\* returns are kept, and the analyzer's sentences are left scored and sorted.
Generate ==
    /\ Len(results) < MaxGenerateCalls
    /\ results' = Append(results, generate(analyzer))
    /\ analyzer' = [analyzer EXCEPT !.sentences = scoreSentences(analyzer)]
    /\ UNCHANGED uiVars

CoreNext == Generate

CoreSpec == CoreInit /\ [][CoreNext]_vars

(***************************************************************************)
(* Files                                                                   *)
(***************************************************************************)

\* String(n) of a template literal, for a number that is not negative.
RECURSIVE numberToString(_)
numberToString(n) ==
    LET digit(d) == <<"0", "1", "2", "3", "4", "5", "6", "7", "8", "9">>[d + 1]
    IN  IF n < 10 THEN <<digit(n)>>
        ELSE numberToString(n \div 10) \o <<digit(n % 10)>>

\* file.name.split('.').pop().toLowerCase() (src/index.js:480, 661): what
\* follows the last dot of the name, or the whole name if it has no dot.
RECURSIVE afterLastDot(_)
afterLastDot(name) ==
    LET i == indexOf(name, <<".">>)
    IN  IF i = -1 THEN name ELSE afterLastDot(SubSeq(name, i + 2, Len(name)))

extensionOf(name) == toLowerCase(afterLastDot(name))

\* validExtensions of handleFileUpload (src/index.js:660)
validExtensions == {<<"t", "x", "t">>, <<"t", "e", "x", "t">>, <<"p", "d", "f">>, <<"d", "o", "c", "x">>, <<"m", "d">>, <<"j", "s", "o", "n">>}

\* How a promise of FileParser settles.
Resolved(text) == [settled |-> "resolved", text |-> text]
Rejected(message) == [settled |-> "rejected", message |-> message]

\* The parsers of FileParser (src/index.js:501-577).  A file of the model is
\* its name, its size, whether the FileReader can read it, whether the parser
\* of its format accepts its payload, and the text that parser extracts: the
\* content of a text file, the page texts of a PDF, the raw text of a DOCX,
\* the string values of a JSON document joined by line breaks.
parseTextFile(file) ==
    IF file.readable THEN Resolved(file.text)
    ELSE Rejected("Failed to read text file")

parsePDF(file) ==
    IF file.wellFormed THEN Resolved(trim(file.text))
    ELSE Rejected("Invalid PDF structure")

parseDOCX(file) ==
    IF file.wellFormed THEN Resolved(file.text)
    ELSE Rejected("Could not find the body of the document")

parseJSON(file) ==
    IF ~file.readable THEN Rejected("Failed to read text file")
    ELSE IF ~file.wellFormed THEN Rejected("Unexpected end of JSON input")
    ELSE Resolved(file.text)

\* FileParser.parse (src/index.js:479-496)
parse(file) ==
    LET ByExtension(extension) ==
            IF extension \in {<<"t", "x", "t">>, <<"t", "e", "x", "t">>, <<"m", "d">>} THEN parseTextFile(file)
            ELSE IF extension = <<"p", "d", "f">> THEN parsePDF(file)
            ELSE IF extension = <<"d", "o", "c", "x">> THEN parseDOCX(file)
            ELSE IF extension = <<"j", "s", "o", "n">> THEN parseJSON(file)
            ELSE Rejected("Unsupported file format")
    IN  ByExtension(extensionOf(file.name))

\* A test for extracted text that takes whitespace for content.
hasNoTextUntrimmed(text) == Len(text) = 0

\* The test of handleFileUpload for extracted text without content
\* (src/index.js:677): !text || text.trim().length === 0
hasNoText(text) == Len(text) = 0 \/ Len(trim(text)) = 0

\* FileParser.formatFileSize (src/index.js:582-586) for a size below 1024
\* bytes, as the files of the model have.
formatFileSize(bytes) == numberToString(bytes) \o <<" ", "B">>

\* The toasts of handleFileUpload and removeFile (src/index.js:664, 697, 701,
\* 723).
UnsupportedToast(extension) ==
    [type |-> "error",
     message |-> "Unsupported file type: .extension. Please use TXT, PDF, DOCX, MD, or JSON.",
     extension |-> extension]

ParseErrorToast(message) ==
    [type |-> "error",
     message |-> IF message = "" THEN "Failed to parse file." ELSE message]

LoadedToast(name) ==
    [type |-> "success", message |-> "Successfully loaded: name", name |-> name]

RemovedToast == [type |-> "info", message |-> "File removed"]

(***************************************************************************)
(* Export, copy, reference lookup                                          *)
(***************************************************************************)

\* JSON.stringify of a string (src/index.js:890): quotes around it, and a
\* backslash escape for the quote, the backslash, the line break and the tab.
RECURSIVE escapeJSON(_)
escapeJSON(t) ==
    LET special == {k \in 1..Len(t) : t[k] \in {"\"", "\\", "\n", "\t"}}
        Escaped(k) ==
            SubSeq(t, 1, k - 1)
                \o <<"\\", (IF t[k] = "\n" THEN "n" ELSE IF t[k] = "\t" THEN "t" ELSE t[k])>>
                \o escapeJSON(SubSeq(t, k + 1, Len(t)))
    IN  IF special = {} THEN t ELSE Escaped(Least(special))

\* JSON.stringify that writes a string between its quotes as it is.
stringifyStringUnescaped(t) == <<"\"">> \o t \o <<"\"">>

\* JSON.stringify of a string (src/index.js:890)
stringifyString(t) == <<"\"">> \o escapeJSON(t) \o <<"\"">>

\* JSON.parse of a string token: what stands between the first quote and the
\* next quote that no backslash escapes, with the escapes undone.
RECURSIVE unescapeJSON(_)
unescapeJSON(t) ==
    LET special == {k \in 1..Len(t) : t[k] \in {"\"", "\\"}}
        Unescaped(k) ==
            IF t[k] = "\"" \/ k = Len(t) THEN SubSeq(t, 1, k - 1)
            ELSE SubSeq(t, 1, k - 1)
                     \o <<(IF t[k + 1] = "n" THEN "\n"
                           ELSE IF t[k + 1] = "t" THEN "\t" ELSE t[k + 1])>>
                     \o unescapeJSON(SubSeq(t, k + 2, Len(t)))
    IN  IF special = {} THEN t ELSE Unescaped(Least(special))

parseString(token) == unescapeJSON(Tail(token))

\* JSON.parse of a number token without sign, fraction or exponent.
RECURSIVE parseNumber(_)
parseNumber(token) ==
    LET value(c) == CHOOSE d \in 0..9 : numberToString(d) = <<c>>
    IN  IF token = <<>> THEN 0
        ELSE 10 * parseNumber(SubSeq(token, 1, Len(token) - 1))
                 + value(token[Len(token)])

\* The entry of exportData.faqs for a FAQ (src/index.js:882-887), each value
\* as JSON.stringify writes it.
exportEntry(faq) ==
    [number    |-> numberToString(faq.number),
     question  |-> stringifyString(faq.question),
     answer    |-> stringifyString(faq.answer),
     reference |-> stringifyString(faq.reference)]

\* exportData of exportFAQs (src/index.js:878-888) as JSON.stringify writes
\* its values; generatedAt, the time of the export, is left out.
exportData(st) ==
    [sourceDocumentLength |-> numberToString(Len(st.sourceText)),
     faqCount             |-> numberToString(Len(st.faqs)),
     faqs                 |-> SubSeq([i \in 1..Len(st.faqs) |-> exportEntry(st.faqs[i])],
                                     1, Len(st.faqs))]

\* The text copyAllFAQs writes to the clipboard (src/index.js:862-864).
copyText(faqs) ==
    LET Block(faq) ==
            <<"Q">> \o numberToString(faq.number) \o <<":", " ">> \o faq.question
                \o <<"\n", "A", ":", " ">> \o faq.answer
                \o <<"\n", "R", "e", "f", "e", "r", "e", "n", "c", "e", ":", " ", "\"">> \o faq.reference \o <<"\"", "\n">>
    IN  join(SubSeq([i \in 1..Len(faqs) |-> Block(faqs[i])], 1, Len(faqs)), <<"\n">>)

\* The toasts of highlightReference, copyAllFAQs and exportFAQs
\* (src/index.js:855, 868, 871, 899).
HighlightedToast ==
    [type |-> "success", message |-> "Reference highlighted in source document"]

CopiedToast == [type |-> "success", message |-> "All FAQs copied to clipboard!"]

CopyFailedToast == [type |-> "error", message |-> "Failed to copy to clipboard"]

ExportedToast == [type |-> "success", message |-> "FAQs exported as JSON!"]

\* The number of line breaks before the offset index of t:
\* t.substring(0, index).split('\n').length - 1 (src/index.js:852).
lineBreaks(t, index) == Cardinality({k \in 1..index : t[k] = "\n"})

(***************************************************************************)
(* The whole page: typing, generating, files, export, copy, lookup         *)
(***************************************************************************)

\* A document of five qualifying sentences, one of them with quotes and a
\* line break inside.
GoodDoc ==
    <<"T", "h", "e", " ", "b", "a", "c", "k", "u", "p", "s", " ", "r", "u", "n", " ", "n", "i", "g", "h", "t", "l", "y", ".", " ", "T", "h", "e", " ", "f", "i", "r", "e", "w", "a", "l", "l", " ", "b", "l", "o", "c", "k", "s", " ", "u", "n", "w", "a", "n", "t", "e", "d", " ", "n", "e", "t", "w", "o", "r", "k", " ", "t", "r", "a", "f", "f", "i", "c", ".", " ", "T", "h", "e", " ", "l", "o", "g", " ", "s", "a", "y", "s", " ", "\"", "d", "i", "s", "k", " ", "f", "u", "l", "l", "\"", " ", "o", "n", "\n", "e", "v", "e", "r", "y", " ", "f", "a", "i", "l", "u", "r", "e", ".", " ", "A", "u", "d", "i", "t", "s", " ", "r", "u", "n", " ", "m", "o", "n", "t", "h", "l", "y", " ", "a", "n", "d", " ", "c", "o", "v", "e", "r", " ", "e", "v", "e", "r", "y", " ", "t", "e", "a", "m", ".", " ", "P", "a", "s", "s", "w", "o", "r", "d", "s", " ", "m", "u", "s", "t", " ", "h", "o", "l", "d", " ", "1", "2", " ", "c", "h", "a", "r", "a", "c", "t", "e", "r", "s", ".">>

\* A document the input gate accepts and in which the Segmenter finds one
\* sentence only; it holds a sentence of GoodDoc at another offset.
ShortDoc ==
    <<"T", "h", "e", " ", "b", "a", "c", "k", "u", "p", "s", " ", "r", "u", "n", " ", "e", "v", "e", "r", "y", " ", "n", "i", "g", "h", "t", ".", " ", "a", "n", "d", " ", "l", "o", "g", "s", " ", "a", "r", "e", " ", "k", "e", "p", "t", " ", "f", "o", "r", " ", "9", "0", " ", "d", "a", "y", "s", ".", " ", "a", "n", "d", " ", "A", "u", "d", "i", "t", "s", " ", "r", "u", "n", " ", "m", "o", "n", "t", "h", "l", "y", " ", "a", "n", "d", " ", "c", "o", "v", "e", "r", " ", "e", "v", "e", "r", "y", " ", "t", "e", "a", "m", ".", " ", "a", "n", "d", " ", "t", "h", "e", " ", "f", "i", "r", "e", "w", "a", "l", "l", " ", "b", "l", "o", "c", "k", "s", " ", "t", "r", "a", "f", "f", "i", "c", ".", " ", "a", "n", "d", " ", "p", "a", "s", "s", "w", "o", "r", "d", "s", " ", "h", "o", "l", "d", " ", "1", "2", " ", "c", "h", "a", "r", "a", "c", "t", "e", "r", "s", ".">>

\* The documents typed or pasted into the textarea of the whole page.
EditDocs == {<<>>, GoodDoc, ShortDoc}

\* The files given to the page: one that loads, one with whitespace only, one
\* whose payload the parser rejects, one with an extension the page refuses.
Files ==
    { [name |-> <<"n", "o", "t", "e", "s", ".", "t", "x", "t">>, size |-> Len(DocOf(3..7)), readable |-> TRUE,
       wellFormed |-> TRUE, text |-> DocOf(3..7)],
      [name |-> <<"b", "l", "a", "n", "k", ".", "m", "d">>, size |-> 3, readable |-> TRUE,
       wellFormed |-> TRUE, text |-> <<" ", " ", "\n">>],
      [name |-> <<"b", "r", "o", "k", "e", "n", ".", "j", "s", "o", "n">>, size |-> 1, readable |-> TRUE,
       wellFormed |-> FALSE, text |-> <<>>],
      [name |-> <<"s", "l", "i", "d", "e", "s", ".", "P", "P", "T", "X">>, size |-> 900, readable |-> TRUE,
       wellFormed |-> TRUE, text |-> <<>>] }

\* The input listener of the textarea (src/index.js:600-603) with the
\* documents of the whole page.
OnEdit ==
    \E d \in EditDocs :
        /\ d # sourceDocument
        /\ sourceDocument' = d
        /\ charCount' = Len(d)
        /\ ValidateInput(d)
        /\ toasts' = <<>>
        /\ event' = "input"
        /\ effect' = Null
        /\ UNCHANGED <<emptyState, outputSection, faqGrid, state, fileVars, work, suspended,
                       renderedFrom, analyzer, results>>

\* handleFileUpload up to its await (src/index.js:658-675), called by the
\* change listener of the file input or by the drop listener of the drop zone
\* (src/index.js:621-649); both need the drop zone on the page.
HandleFileUpload ==
    \E file \in Files, via \in {"change", "drop"} :
        /\ filePanel.fileDropZone = "shown"
        /\ fileInput' = IF via = "change" THEN file.name ELSE fileInput
        /\ IF extensionOf(file.name) \notin validExtensions
           THEN /\ toasts' = <<UnsupportedToast(extensionOf(file.name))>>
                /\ event' = "upload:unsupported"
                /\ UNCHANGED <<filePanel, upload>>
           ELSE /\ filePanel' = [filePanel EXCEPT !.fileDropZone = "hidden",
                                                 !.fileInfo = "hidden",
                                                 !.fileLoading = "shown"]
                /\ upload' = file
                /\ toasts' = <<>>
                /\ event' = "upload:parsing"
        /\ effect' = Null
        /\ UNCHANGED <<sourceDocument, charCount, reqLength, generateBtn, emptyState,
                       outputSection, faqGrid, state, work, suspended, renderedFrom,
                       analyzer, results>>

\* handleFileUpload after its await (src/index.js:675-710): the parser has
\* settled.
HandleFileUploadAfterParse ==
    /\ upload # Null
    /\ LET Loaded(file, text) ==
               /\ state' = [state EXCEPT !.currentFile = file]
               /\ sourceDocument' = text
               /\ charCount' = Len(text)
               /\ ValidateInput(text)
               /\ filePanel' = [fileDropZone |-> "hidden",
                                fileLoading  |-> "hidden",
                                fileInfo     |-> "shown",
                                fileName     |-> file.name,
                                fileSize     |-> formatFileSize(file.size)]
               /\ toasts' = <<LoadedToast(file.name)>>
               /\ event' = "upload:loaded"
           Failed(message) ==
               /\ toasts' = <<ParseErrorToast(message)>>
               /\ event' = "upload:failed"
               /\ filePanel' = [filePanel EXCEPT !.fileLoading = "hidden",
                                                 !.fileDropZone = "shown",
                                                 !.fileInfo = "hidden"]
               /\ UNCHANGED <<state, sourceDocument, charCount, reqLength, generateBtn>>
           Settle(file, result) ==
               IF result.settled = "rejected" THEN Failed(result.message)
               ELSE IF hasNoText(result.text)
               THEN Failed("No text content found in the file.")
               ELSE Loaded(file, result.text)
       IN  Settle(upload, parse(upload))
    /\ fileInput' = <<>>
    /\ upload' = Null
    /\ effect' = Null
    /\ UNCHANGED <<emptyState, outputSection, faqGrid, work, suspended, renderedFrom,
                   analyzer, results>>

\* removeFile (src/index.js:713-724), called by the click listener of the
\* remove button, which the file info holds.
RemoveFile ==
    /\ filePanel.fileInfo = "shown"
    /\ state' = [state EXCEPT !.currentFile = Null]
    /\ sourceDocument' = <<>>
    /\ filePanel' = [filePanel EXCEPT !.fileInfo = "hidden", !.fileDropZone = "shown"]
    /\ charCount' = 0
    /\ ValidateInput(<<>>)
    /\ toasts' = <<RemovedToast>>
    /\ event' = "file:removed"
    /\ effect' = Null
    /\ UNCHANGED <<emptyState, outputSection, faqGrid, fileInput, upload, work, suspended,
                   renderedFrom, analyzer, results>>

\* highlightReference (src/index.js:840-857), called by a click on the
\* reference of a card of the grid.
HighlightReference ==
    \E i \in 1..Len(faqGrid) :
        /\ LET Look(reference, sourceText, index) ==
                   /\ effect' =
                          [kind       |-> "highlight",
                           reference  |-> reference,
                           sourceText |-> sourceText,
                           index      |-> index,
                           selection  |->
                               IF index # -1
                               THEN [start |-> index,
                                     end |-> index + Len(reference),
                                     scrollTop |-> lineBreaks(sourceText, index) * 24]
                               ELSE Null]
                   /\ toasts' = IF index # -1 THEN <<HighlightedToast>> ELSE <<>>
                   /\ event' = IF index # -1 THEN "highlight:found" ELSE "highlight:missing"
           IN  Look(faqGrid[i].reference, sourceDocument,
                    indexOf(sourceDocument, faqGrid[i].reference))
        /\ UNCHANGED <<sourceDocument, charCount, reqLength, generateBtn, emptyState,
                       outputSection, faqGrid, state, fileVars, work, suspended, renderedFrom,
                       analyzer, results>>

\* copyAllFAQs (src/index.js:859-873): the clipboard takes the text or refuses.
CopyAllFAQs ==
    /\ IF Len(state.faqs) = 0
       THEN /\ effect' = Null
            /\ toasts' = <<>>
            /\ event' = "copy:nothing"
       ELSE \E written \in BOOLEAN :
                IF written
                THEN /\ effect' = [kind |-> "clipboard", text |-> copyText(state.faqs)]
                     /\ toasts' = <<CopiedToast>>
                     /\ event' = "copy:written"
                ELSE /\ effect' = Null
                     /\ toasts' = <<CopyFailedToast>>
                     /\ event' = "copy:failed"
    /\ UNCHANGED <<sourceDocument, charCount, reqLength, generateBtn, emptyState,
                   outputSection, faqGrid, state, fileVars, work, suspended, renderedFrom,
                   analyzer, results>>

\* exportFAQs (src/index.js:875-901): the download of the export.
ExportFAQs ==
    /\ IF Len(state.faqs) = 0
       THEN /\ effect' = Null
            /\ toasts' = <<>>
            /\ event' = "export:nothing"
       ELSE /\ effect' = [kind |-> "download", data |-> exportData(state)]
            /\ toasts' = <<ExportedToast>>
            /\ event' = "export:downloaded"
    /\ UNCHANGED <<sourceDocument, charCount, reqLength, generateBtn, emptyState,
                   outputSection, faqGrid, state, fileVars, work, suspended, renderedFrom,
                   analyzer, results>>

PageNext ==
    \/ OnEdit
    \/ HandleGenerate
    \/ HandleGenerateAfterDelay
    \/ HandleFileUpload
    \/ HandleFileUploadAfterParse
    \/ RemoveFile
    \/ HighlightReference
    \/ CopyAllFAQs
    \/ ExportFAQs

PageSpec == Init /\ [][PageNext]_vars

(***************************************************************************)
(* Question synthesis on sentences with several content cues               *)
(***************************************************************************)

\* Sentences that a pattern of CONFIG.QUESTION_PATTERNS matches and that pass
\* more than one test of formatQuestion; together their first cues are each
\* of the nine tests.  The last but one passes the process test alone.
CuePool ==
    << <<"T", "h", "e", " ", "p", "r", "o", "c", "e", "s", "s", " ", "r", "e", "q", "u", "i", "r", "e", "s", " ", "n", "o", " ", "m", "a", "n", "u", "a", "l", " ", "i", "n", "t", "e", "r", "v", "e", "n", "t", "i", "o", "n", ".">>,
       <<"E", "n", "c", "r", "y", "p", "t", "i", "o", "n", " ", "i", "s", " ", "a", " ", "k", "i", "n", "d", " ", "o", "f", " ", "p", "r", "o", "c", "e", "s", "s", " ", "t", "h", "a", "t", " ", "r", "e", "q", "u", "i", "r", "e", "s", " ", "3", " ", "p", "e", "r", "c", "e", "n", "t", " ", "m", "o", "r", "e", " ", "t", "i", "m", "e", ".">>,
       <<"C", "a", "c", "h", "i", "n", "g", " ", "h", "e", "l", "p", "s", " ", "b", "e", "c", "a", "u", "s", "e", " ", "2", "0", " ", "p", "e", "r", "c", "e", "n", "t", " ", "o", "f", " ", "r", "e", "a", "d", "s", " ", "r", "e", "p", "e", "a", "t", ".">>,
       <<"O", "v", "e", "r", "l", "o", "a", "d", " ", "c", "a", "u", "s", "e", "s", " ", "f", "a", "i", "l", "u", "r", "e", "s", " ", "s", "i", "n", "c", "e", " ", "r", "e", "t", "r", "i", "e", "s", " ", "m", "u", "s", "t", " ", "w", "a", "i", "t", ".">>,
       <<"L", "o", "g", "g", "i", "n", "g", " ", "i", "s", " ", "u", "s", "e", "f", "u", "l", " ", "b", "e", "c", "a", "u", "s", "e", " ", "i", "t", " ", "s", "u", "p", "p", "o", "r", "t", "s", " ", "a", "u", "d", "i", "t", "s", ".">>,
       <<"R", "e", "p", "l", "i", "c", "a", "t", "i", "o", "n", " ", "a", "l", "l", "o", "w", "s", " ", "r", "e", "c", "o", "v", "e", "r", "y", " ", "a", "n", "d", " ", "n", "e", "e", "d", "s", " ", "a", " ", "m", "e", "t", "h", "o", "d", ".">>,
       <<"T", "h", "e", " ", "a", "r", "c", "h", "i", "v", "e", " ", "i", "n", "c", "l", "u", "d", "e", "s", " ", "r", "e", "c", "o", "r", "d", "s", " ", "f", "o", "u", "n", "d", " ", "i", "n", " ", "e", "v", "e", "r", "y", " ", "r", "e", "g", "i", "o", "n", ".">>,
       <<"E", "r", "r", "o", "r", "s", " ", "a", "r", "e", " ", "f", "o", "u", "n", "d", " ", "w", "h", "e", "r", "e", " ", "t", "h", "e", " ", "a", "p", "p", "r", "o", "a", "c", "h", " ", "f", "a", "i", "l", "s", ".">>,
       <<"T", "u", "n", "i", "n", "g", " ", "i", "s", " ", "t", "h", "e", " ", "o", "n", "l", "y", " ", "w", "a", "y", " ", "f", "o", "r", "w", "a", "r", "d", " ", "f", "o", "r", " ", "t", "h", "e", " ", "t", "e", "a", "m", ".">> >>

\* The sentences of the cue pool with the positions in S, in the pool's order,
\* with one space between two.
RECURSIVE CueDocOf(_)
CueDocOf(S) ==
    IF S = {} THEN <<>>
    ELSE LET i == Least(S)
         IN  IF S = {i} THEN CuePool[i] ELSE CuePool[i] \o <<" ">> \o CueDocOf(S \ {i})

\* The documents given to the analyzer: every choice of MIN_SENTENCES
\* sentences of the cue pool.
CueDocs ==
    {CueDocOf(S) : S \in {T \in SUBSET (1..Len(CuePool)) : Cardinality(T) = MIN_SENTENCES}}

QuestionInit ==
    /\ UIInit
    /\ analyzer \in {TextAnalyzer(d) : d \in CueDocs}
    /\ results = <<>>

QuestionSpec == QuestionInit /\ [][CoreNext]_vars

(***************************************************************************)
(* Properties                                                              *)
(***************************************************************************)

\* The sentence of the analyzer that an FAQ record was made from.
sentenceOf(faq) == findByIndex(analyzer.sentences, faq.sourceIndex)

\* The number of records the strict pass gave to the result of a generate
\* call on the analyzer (whose sentences that call has left sorted).
strictCount == Len(strictPass(analyzer.sentences, 1, <<>>, {}).faqs)

\* Whether the Segmenter finds fewer than MIN_SENTENCES sentences in text.
FewerThanFive(text) == Len(qualifyingTexts(text)) < MIN_SENTENCES

\* A run of handleGenerate has just ended.
RunEnded == event \in {"generate:rendered", "generate:failed"}

\* C1: a run of the generate handler on a document in which the Segmenter
\* finds at least 5 sentences renders exactly 5 FAQ records, each with a
\* non-empty question, answer and reference, and shows the success toast
\* alone: the warning about fewer than 5 FAQs is not shown.
C1_FiveCompleteFAQs ==
    (RunEnded /\ ~FewerThanFive(state.sourceText)) =>
        /\ event = "generate:rendered"
        /\ Len(state.faqs) = FAQ_COUNT
        /\ \A i \in 1..Len(state.faqs) :
              /\ state.faqs[i].question # <<>>
              /\ state.faqs[i].answer # <<>>
              /\ state.faqs[i].reference # <<>>
        /\ faqGrid = state.faqs
        /\ toasts = <<SuccessToast>>

\* A run has rendered 5 FAQs of which the strict pass alone gave fewer.
C1_Witness ==
    /\ event = "generate:rendered"
    /\ Len(state.faqs) = FAQ_COUNT
    /\ Len(strictPass(scoreSentences(TextAnalyzer(state.sourceText)), 1, <<>>, {}).faqs)
           < FAQ_COUNT

C3_AnswersAreExcerpts ==
    \A k \in 1..Len(results) :
        \A i \in 1..Len(results[k]) :
            includes(analyzer.originalText, results[k][i].answer)

\* C4: the answer of every FAQ record generate returns is the text of the
\* sentence of the same analyzer whose index is the record's sourceIndex.
C4_AnswerIsSentenceText ==
    \A k \in 1..Len(results) :
        \A i \in 1..Len(results[k]) :
            /\ \E j \in 1..Len(analyzer.sentences) :
                  analyzer.sentences[j].index = results[k][i].sourceIndex
            /\ results[k][i].answer = sentenceOf(results[k][i]).text

\* generate has returned a record whose sentence has a recovered span that
\* differs from its text.
C4_Witness ==
    /\ results # <<>>
    /\ \E i \in 1..Len(results[1]) :
          sentenceOf(results[1][i]).originalText # sentenceOf(results[1][i]).text

\* C5: for every FAQ record generate returns whose sentence findOriginalSentence
\* has matched in the raw document, the reference occurs in that document, so
\* that indexOf finds it there.
C5_MatchedReferenceIsSubstring ==
    \A k \in 1..Len(results) :
        \A i \in 1..Len(results[k]) :
            (originalMatchIndex(analyzer.originalText, sentenceOf(results[k][i]).text) # -1) =>
                /\ includes(analyzer.originalText, results[k][i].reference)
                /\ indexOf(analyzer.originalText, results[k][i].reference) >= 0

\* generate has returned a record whose sentence was matched in the raw
\* document at a place written in other letter case.
C5_Witness ==
    /\ results # <<>>
    /\ \E i \in 1..Len(results[1]) :
          /\ originalMatchIndex(analyzer.originalText, sentenceOf(results[1][i]).text) # -1
          /\ results[1][i].reference # sentenceOf(results[1][i]).text

\* C6: for any two FAQ records of one result that the strict pass accepted,
\* the Jaccard similarity of the token sets of their sentences is at most 0.5.
C6_StrictPassIsDiverse ==
    LET Diverse(strict) ==
            \A k \in 1..Len(results) :
                \A i, j \in 1..strict :
                    (i < j) =>
                        AtMostHalf(calculateSimilarity(sentenceOf(results[k][i]).words,
                                                       sentenceOf(results[k][j]).words))
    IN  (results # <<>>) => Diverse(strictCount)

\* C7: every call of generate on one analyzer returns the same list of FAQ
\* records, the one a fresh analyzer of the same document gives.
C7_Deterministic ==
    /\ \A k \in 1..Len(results) : results[k] = results[1]
    /\ (results # <<>>) => results[1] = generate(TextAnalyzer(analyzer.originalText))

\* generate has been called twice on an analyzer, and two sentences of equal
\* importance are both in the result.
C7_Witness ==
    /\ Len(results) = 2
    /\ \E i, j \in 1..Len(results[2]) :
          /\ i < j
          /\ sentenceOf(results[2][i]).importance = sentenceOf(results[2][j]).importance

\* C8: a piece of the Segmenter of exactly 20 characters is kept as a sentence
\* and is counted by the input gate, one of 19 characters is not kept, and no
\* sentence is shorter than 20 characters.
C8_BoundaryCountsEverywhere ==
    LET text == trim(sourceDocument)
        pieces == trimmedSentences(text)
        kept == qualifyingTexts(text)
    IN  /\ \A i \in 1..Len(pieces) :
              /\ (Len(pieces[i]) = MIN_SENTENCE_LENGTH) =>
                     /\ pieces[i] \in Range(kept)
                     /\ Len(gateSentences(pieces[i])) >= 1
              /\ (Len(pieces[i]) = MIN_SENTENCE_LENGTH - 1) => pieces[i] \notin Range(kept)
        /\ \A i \in 1..Len(kept) : Len(kept[i]) >= MIN_SENTENCE_LENGTH

\* C9: generate returns min(5, number of sentences) records, and no two
\* records of one result have the same sourceIndex.
C9_CountAndUsedOnce ==
    \A k \in 1..Len(results) :
        /\ Len(results[k]) = (IF Len(analyzer.sentences) < FAQ_COUNT
                                  THEN Len(analyzer.sentences) ELSE FAQ_COUNT)
        /\ \A i, j \in 1..Len(results[k]) :
              (i # j) => results[k][i].sourceIndex # results[k][j].sourceIndex

\* generate has returned 5 records of at least 5 sentences, the second pass
\* having added to those of the strict pass.
C9_Witness ==
    /\ results # <<>>
    /\ Len(analyzer.sentences) >= FAQ_COUNT
    /\ strictCount < FAQ_COUNT
    /\ Len(results[1]) = FAQ_COUNT

\* C10 as stated: the records of a result carry the ordinals 1, 2, ..., N in
\* list order, and a record before another comes from a sentence of greater
\* or equal importance.
C10_DescendingImportance ==
    \A k \in 1..Len(results) :
        /\ \A i \in 1..Len(results[k]) : results[k][i].number = i
        /\ \A i, j \in 1..Len(results[k]) :
              (i < j) => sentenceOf(results[k][i]).importance
                             >= sentenceOf(results[k][j]).importance

\* C10, amended: the records of a result carry the ordinals 1, 2, ..., N in
\* list order; the records of the strict pass come first, in descending
\* importance, and those of the second pass follow, in descending importance.
C10_DescendingWithinPass ==
    LET Ordered(strict) ==
            \A k \in 1..Len(results) :
                /\ \A i \in 1..Len(results[k]) : results[k][i].number = i
                /\ \A i, j \in 1..Len(results[k]) :
                      (i < j /\ (j <= strict \/ i > strict)) =>
                          sentenceOf(results[k][i]).importance
                              >= sentenceOf(results[k][j]).importance
    IN  (results # <<>>) => Ordered(strictCount)

\* generate has returned a record of the second pass whose sentence has a
\* greater importance than that of a record of the strict pass.
C10_Witness ==
    LET Overtaken(strict) ==
            \E i, j \in 1..Len(results[1]) :
                /\ i <= strict
                /\ j > strict
                /\ sentenceOf(results[1][i]).importance
                       < sentenceOf(results[1][j]).importance
    IN  results # <<>> /\ Overtaken(strictCount)

\* C11 as stated: when a run finds too few qualifying sentences, nothing has
\* computed term weights or sentence importance before the error is raised.
C11_NoWeightsBeforeCheck ==
    (event = "generate:failed") =>
        \A i \in 1..Len(work) :
            work[i] \notin {"calculateTF", "calculateIDF", "calculateTFIDF", "scoreSentences"}

\* C11, amended: when a run finds too few qualifying sentences, the error is
\* raised before any sentence is scored for importance, and after the
\* constructor of the analyzer has computed the term weights.
C11_NoImportanceBeforeCheck ==
    (event = "generate:failed") =>
        /\ \A i \in 1..Len(work) : work[i] \notin {"generate", "scoreSentences"}
        /\ \E i, j \in 1..Len(work) :
               /\ i < j
               /\ work[i] = "calculateTFIDF"
               /\ work[j] = "throw"

\* A run has ended with the error of the check.
C11_Witness ==
    /\ event = "generate:failed"
    /\ toasts = <<NotEnoughToast>>
    /\ work # <<>>
    /\ work[Len(work)] = "throw"

\* C12: the export of a non-empty set of FAQs holds one entry per FAQ, in the
\* same order, from which the ordinal, the question, the answer and the
\* reference of the FAQ are read back exactly; an entry has no sourceIndex;
\* faqCount is the number of entries.  With no FAQ the export downloads
\* nothing, shows nothing and changes nothing.
C12_ExportRoundTrip ==
    [][ /\ (event' = "export:downloaded") =>
              /\ state.faqs # <<>>
              /\ effect'.kind = "download"
              /\ parseNumber(effect'.data.faqCount) = Len(effect'.data.faqs)
              /\ Len(effect'.data.faqs) = Len(state.faqs)
              /\ \A i \in 1..Len(state.faqs) :
                    /\ DOMAIN effect'.data.faqs[i]
                           = {"number", "question", "answer", "reference"}
                    /\ parseNumber(effect'.data.faqs[i].number) = state.faqs[i].number
                    /\ parseString(effect'.data.faqs[i].question) = state.faqs[i].question
                    /\ parseString(effect'.data.faqs[i].answer) = state.faqs[i].answer
                    /\ parseString(effect'.data.faqs[i].reference) = state.faqs[i].reference
        /\ (event' = "export:nothing") =>
              /\ state.faqs = <<>>
              /\ effect' = Null
              /\ toasts' = <<>>
              /\ UNCHANGED <<sourceDocument, charCount, reqLength, generateBtn,
                             emptyState, outputSection, faqGrid, state, fileVars>>
      ]_vars

\* An export has been downloaded in which an answer holds a quote or a line
\* break, which the export writes with an escape.
C12_Witness ==
    /\ event = "export:downloaded"
    /\ \E i \in 1..Len(state.faqs) :
           /\ \E k \in 1..Len(state.faqs[i].answer) :
                  state.faqs[i].answer[k] \in {"\"", "\n"}
           /\ Len(effect.data.faqs[i].answer) > Len(state.faqs[i].answer) + 2

\* C13: whenever no run is in progress, the FAQs held for display, copy and
\* export are those generate yields for the recorded source text, and an
\* export states the length of the document its FAQs were generated from.
C13_FAQsFromSourceText ==
    /\ (~state.isGenerating /\ state.faqs # <<>>) =>
           /\ renderedFrom = state.sourceText
           /\ state.faqs = generate(TextAnalyzer(state.sourceText))
    /\ (event = "export:downloaded") =>
           parseNumber(effect.data.sourceDocumentLength) = Len(renderedFrom)

\* C14: a click on the reference of a rendered FAQ looks the reference up in
\* the document the FAQ was generated from.
C14_LookupInGeneratingDocument ==
    (event \in {"highlight:found", "highlight:missing"}) =>
        trim(effect.sourceText) = renderedFrom

\* C15: a file with an unsupported extension, a file whose parser rejects its
\* payload and a file whose extracted text is empty or whitespace all end in
\* one error toast; the step leaves the text of the textarea, the recorded
\* current file, the stored FAQs and the rendered cards as they were, and
\* leaves the drop zone on the page with no file loading.
C15_LoadFailureIsReported ==
    [][ LET Unusable(result) ==
                IF result.settled = "rejected" THEN TRUE
                ELSE Len(trim(result.text)) = 0
            Reported ==
                /\ Len(toasts') = 1
                /\ toasts'[1].type = "error"
                /\ toasts'[1].message # ""
                /\ sourceDocument' = sourceDocument
                /\ state'.currentFile = state.currentFile
                /\ state'.faqs = state.faqs
                /\ faqGrid' = faqGrid
                /\ filePanel'.fileDropZone = "shown"
                /\ filePanel'.fileLoading = "hidden"
                /\ upload' = Null
        IN  /\ (event' \in {"upload:unsupported", "upload:failed"}) => Reported
            /\ (event' = "upload:parsing") =>
                    extensionOf(upload'.name) \in validExtensions
            /\ (upload # Null /\ upload' = Null /\ Unusable(parse(upload))) =>
                    event' = "upload:failed"
      ]_vars

\* A file without text has been refused while the textarea held a document
\* and FAQs had been generated.
C15_Witness ==
    /\ event = "upload:failed"
    /\ toasts = <<ParseErrorToast("No text content found in the file.")>>
    /\ sourceDocument # <<>>
    /\ state.faqs # <<>>
    /\ filePanel.fileDropZone = "shown"

\* The first five words of a sentence (src/index.js:126), fewer if it has
\* fewer.
firstWords(processedSentence) ==
    LET FirstFive(ws) == SubSeq(ws, 1, IF Len(ws) < 5 THEN Len(ws) ELSE 5)
    IN  FirstFive(splitSpaces(processedSentence))

\* The first 0-based offset of fullText at which the words stand in order with
\* whitespace between them, whatever the case of their letters, or -1: what an
\* expression of the words joined by \s+ matches (src/index.js:126-128).
wordsMatchIndex(fullText, words) ==
    LET hits == {p \in 1..Len(fullText) : phraseEnd(fullText, p, words) # -1}
    IN  IF hits = {} THEN -1 ELSE Least(hits) - 1

\* C16: for every sentence of the analyzer whose first five words stand in the
\* document in order with whitespace between them, whatever the case, the
\* search of findOriginalSentence matches there, and the original text of the
\* sentence is the document from that offset through the next terminal
\* punctuation; the original text is the normalized sentence only when the
\* words do not stand in the document.
C16_SpanRecovered ==
    \A i \in 1..Len(analyzer.sentences) :
        LET Recovered(s, p) ==
                IF p # -1
                THEN /\ originalMatchIndex(analyzer.originalText, s.text) = p
                     /\ s.originalText =
                            trim(slice(analyzer.originalText, p,
                                       p + sentenceEndIndex(
                                               slice(analyzer.originalText, p,
                                                     Len(analyzer.originalText))) + 1))
                ELSE s.originalText = s.text
        IN  Recovered(analyzer.sentences[i],
                      wordsMatchIndex(analyzer.originalText,
                                      firstWords(analyzer.sentences[i].text)))

\* C17 as stated: scoring leaves the sentences of the analyzer in their order,
\* the sentence with index i at position i, and changes their importance only.
C17_ScoringKeepsOrder ==
    LET Annotated(before, after) ==
            /\ Len(after) = Len(before)
            /\ \A i \in 1..Len(before) :
                  /\ after[i].index = i - 1
                  /\ after[i] = [before[i] EXCEPT !.importance = after[i].importance]
    IN  (results # <<>>) =>
            Annotated(extractSentences(analyzer.originalText), analyzer.sentences)

\* C17, amended: scoring leaves the analyzer with the same sentences, each with
\* its text, index, original text and words, and with its score as importance;
\* it sorts them by descending importance, sentences of equal importance by
\* ascending index.
C17_ScoringAnnotatesAndSorts ==
    LET Sorted(before, after) ==
            /\ Len(after) = Len(before)
            /\ \A i \in 1..Len(before) :
                  \E j \in 1..Len(after) :
                      after[j] = [before[i] EXCEPT
                                     !.importance = sentenceScore(analyzer, before[i])]
            /\ \A j, k \in 1..Len(after) :
                  (j < k) =>
                      \/ after[j].importance > after[k].importance
                      \/ /\ after[j].importance = after[k].importance
                         /\ after[j].index < after[k].index
    IN  (results # <<>>) =>
            Sorted(extractSentences(analyzer.originalText), analyzer.sentences)

\* Scoring has moved a sentence: a position of the analyzer's array holds a
\* sentence with another index.
C17_Witness ==
    /\ results # <<>>
    /\ \E i \in 1..Len(analyzer.sentences) : analyzer.sentences[i].index # i - 1

\* C18: the strict pass visits the sentences in descending importance, those
\* of equal importance in document order.  Its records stand in that order,
\* so of two records of equal importance the one of the earlier sentence has
\* the smaller ordinal; and a sentence that comes before the sentence of a
\* record in that order has a record with a smaller ordinal or is too similar
\* to the sentence of such a record.
C18_WalkInImportanceOrder ==
    LET Before(s, t) ==
            \/ s.importance > t.importance
            \/ s.importance = t.importance /\ s.index < t.index
        Earlier(faqs, j) == {sentenceOf(faqs[i]) : i \in 1..(j - 1)}
        Walked(faqs, strict) ==
            \A j \in 1..strict :
                /\ \A s \in Earlier(faqs, j) : Before(s, sentenceOf(faqs[j]))
                /\ \A n \in 1..Len(analyzer.sentences) :
                      Before(analyzer.sentences[n], sentenceOf(faqs[j])) =>
                          \/ analyzer.sentences[n] \in Earlier(faqs, j)
                          \/ isTooSimilar(analyzer.sentences[n], Earlier(faqs, j))
        AllWalked(strict) == \A k \in 1..Len(results) : Walked(results[k], strict)
    IN  (results # <<>>) => AllWalked(strictCount)

\* The strict pass has given records to two sentences of equal importance.
C18_Witness ==
    LET Tied(faqs, strict) ==
            \E i, j \in 1..strict :
                /\ i < j
                /\ sentenceOf(faqs[i]).importance = sentenceOf(faqs[j]).importance
                /\ faqs[i].sourceIndex < faqs[j].sourceIndex
    IN  results # <<>> /\ Tied(results[1], strictCount)

\* C19: the records of the strict pass open every result, with their ordinals
\* as the strict pass gave them.  A strict pass that ends with 5 records is
\* the whole result.  Otherwise the sentences that have no record of the
\* strict pass follow in the order of the sorted list, similar or not, each
\* once, with the next ordinals, until the result has 5 records or no such
\* sentence is left.
C19_SecondPassFillsUp ==
    LET Filled(faqs, first) ==
            LET Unused(s) == s.index \notin first.usedSentences
                Added(unused, n) ==
                    /\ Len(faqs) = n + (IF Len(unused) < FAQ_COUNT - n
                                            THEN Len(unused) ELSE FAQ_COUNT - n)
                    /\ \A m \in 1..(Len(faqs) - n) :
                          faqs[n + m] = createFAQ(unused[m], n + m)
            IN  /\ Len(faqs) >= Len(first.faqs)
                /\ SubSeq(faqs, 1, Len(first.faqs)) = first.faqs
                /\ (Len(first.faqs) >= FAQ_COUNT) => faqs = first.faqs
                /\ (Len(first.faqs) < FAQ_COUNT) =>
                       Added(SelectSeq(analyzer.sentences, Unused), Len(first.faqs))
        AllFilled(first) == \A k \in 1..Len(results) : Filled(results[k], first)
    IN  (results # <<>>) => AllFilled(strictPass(analyzer.sentences, 1, <<>>, {}))

\* The second pass has given a record to a sentence that is too similar to a
\* sentence with a record of the strict pass.
C19_Witness ==
    LET Relaxed(faqs, strict) ==
            /\ strict < FAQ_COUNT
            /\ \E j \in (strict + 1)..Len(faqs) :
                   isTooSimilar(sentenceOf(faqs[j]),
                                {sentenceOf(faqs[i]) : i \in 1..strict})
    IN  results # <<>> /\ Relaxed(results[1], strictCount)

\* The text generateQuestion works on (src/index.js:376): the sentence without
\* its last terminal mark, trimmed.
questionText(sentence) ==
    LET Stripped(st) ==
            trim(IF st # <<>> /\ IsTerminal(st[Len(st)])
                     THEN SubSeq(st, 1, Len(st) - 1) ELSE st)
    IN  Stripped(sentence.text)

\* The patterns of CONFIG.QUESTION_PATTERNS that match the text
\* (src/index.js:379-381), by their positions in the table.
matchingPatterns(text) ==
    {k \in 1..Len(QUESTION_PATTERNS) : patternGroupLength(text, QUESTION_PATTERNS[k]) > 0}

\* The subject generateQuestion gives to formatQuestion (src/index.js:382-383):
\* extractSubject of the first group of the first pattern that matches.
patternSubject(text) ==
    LET OfGroup(n) == extractSubject(trim(SubSeq(text, 1, n)))
    IN  OfGroup(patternGroupLength(text, QUESTION_PATTERNS[Least(matchingPatterns(text))]))

\* The content cues of formatQuestion after the type cue and the quantity cue
\* (src/index.js:430-454), in the order of the tests.
CONTENT_CUES ==
    << {<<<<"c", "a", "u", "s", "e">>>>, <<<<"l", "e", "a", "d">>, <<"t", "o">>>>, <<<<"l", "e", "a", "d", "s">>, <<"t", "o">>>>,
        <<<<"r", "e", "s", "u", "l", "t">>, <<"i", "n">>>>, <<<<"r", "e", "s", "u", "l", "t", "s">>, <<"i", "n">>>>},
       {<<<<"b", "e", "c", "a", "u", "s", "e">>>>, <<<<"s", "i", "n", "c", "e">>>>, <<<<"d", "u", "e">>, <<"t", "o">>>>, <<<<"r", "e", "a", "s", "o", "n">>>>},
       {<<<<"h", "e", "l", "p">>>>, <<<<"e", "n", "a", "b", "l", "e">>>>, <<<<"a", "l", "l", "o", "w">>>>, <<<<"s", "u", "p", "p", "o", "r", "t">>>>},
       {<<<<"r", "e", "q", "u", "i", "r", "e">>>>, <<<<"n", "e", "e", "d">>>>, <<<<"m", "u", "s", "t">>>>, <<<<"s", "h", "o", "u", "l", "d">>>>},
       {<<<<"i", "n", "c", "l", "u", "d", "e">>>>, <<<<"c", "o", "n", "t", "a", "i", "n">>>>, <<<<"c", "o", "n", "s", "i", "s", "t">>>>, <<<<"c", "o", "m", "p", "r", "i", "s", "e">>>>},
       {<<<<"l", "o", "c", "a", "t", "e", "d">>>>, <<<<"f", "o", "u", "n", "d">>>>, <<<<"e", "x", "i", "s", "t">>>>, <<<<"o", "c", "c", "u", "r">>>>},
       {<<<<"p", "r", "o", "c", "e", "s", "s">>>>, <<<<"m", "e", "t", "h", "o", "d">>>>, <<<<"w", "a", "y">>>>, <<<<"a", "p", "p", "r", "o", "a", "c", "h">>>>,
        <<<<"t", "e", "c", "h", "n", "i", "q", "u", "e">>>>} >>

\* The number of the first test of formatQuestion (src/index.js:422-454) the
\* text passes, from 1 for the type cue to 9 for the process cue; 0 if it
\* passes none.
firstCue(text) ==
    LET Later(hits) == IF hits = {} THEN 0 ELSE Least(hits) + 2
    IN  IF IsTypeCue(text) THEN 1
        ELSE IF IsQuantityCue(text) THEN 2
        ELSE Later({k \in 1..Len(CONTENT_CUES) : HasPhrase(text, CONTENT_CUES[k])})

\* C20 as stated: the question of a sentence that no pattern matches, and of a
\* sentence that a pattern matches and no content cue, is 'What is important
\* to know about {subject}?' with the subject extracted from the sentence.
C20_GenericQuestion ==
    \A k \in 1..Len(results) :
        \A i \in 1..Len(results[k]) :
            LET Generic(question, text) ==
                    /\ (matchingPatterns(text) = {}) =>
                           question = <<"W", "h", "a", "t", " ", "i", "s", " ", "i", "m", "p", "o", "r", "t", "a", "n", "t", " ", "t", "o", " ", "k", "n", "o", "w", " ", "a", "b", "o", "u", "t", " ">>
                                          \o extractSubject(text) \o <<"?">>
                    /\ (matchingPatterns(text) # {} /\ firstCue(text) = 0) =>
                           question = <<"W", "h", "a", "t", " ", "i", "s", " ", "i", "m", "p", "o", "r", "t", "a", "n", "t", " ", "t", "o", " ", "k", "n", "o", "w", " ", "a", "b", "o", "u", "t", " ">>
                                          \o patternSubject(text) \o <<"?">>
            IN  Generic(results[k][i].question, questionText(sentenceOf(results[k][i])))

\* C20, amended: the question of a sentence that no pattern matches is 'What
\* is important to know about {subject}?' with the subject extracted from the
\* sentence and written in lower case; the question of a sentence that a
\* pattern matches and no content cue is 'What should be known about
\* {subject}?' with the subject extracted from the first group of the pattern.
\* Stated of the result the latest call of generate returned.
C20_TwoGenericQuestions ==
    \A k \in {Len(results)} \ {0} :
        \A i \in 1..Len(results[k]) :
            LET Generic(question, text, matching) ==
                    /\ (matching = {}) =>
                           question = <<"W", "h", "a", "t", " ", "i", "s", " ", "i", "m", "p", "o", "r", "t", "a", "n", "t", " ", "t", "o", " ", "k", "n", "o", "w", " ", "a", "b", "o", "u", "t", " ">>
                                          \o toLowerCase(extractSubject(text)) \o <<"?">>
                    /\ (matching # {} /\ firstCue(text) = 0) =>
                           question = <<"W", "h", "a", "t", " ", "s", "h", "o", "u", "l", "d", " ", "b", "e", " ", "k", "n", "o", "w", "n", " ", "a", "b", "o", "u", "t", " ">>
                                          \o patternSubject(text) \o <<"?">>
                Asked(question, text) == Generic(question, text, matchingPatterns(text))
            IN  Asked(results[k][i].question, questionText(sentenceOf(results[k][i])))

\* A result holds the question of a sentence that no pattern matches and whose
\* subject has a capital letter, and the question of a sentence that a pattern
\* matches and no content cue.
C20_Witness ==
    /\ results # <<>>
    /\ \E i \in 1..Len(results[1]) :
           LET Lowered(text) ==
                   /\ matchingPatterns(text) = {}
                   /\ toLowerCase(extractSubject(text)) # extractSubject(text)
           IN  Lowered(questionText(sentenceOf(results[1][i])))
    /\ \E i \in 1..Len(results[1]) :
           LET Default(text) == matchingPatterns(text) # {} /\ firstCue(text) = 0
           IN  Default(questionText(sentenceOf(results[1][i])))

\* The question formatQuestion makes of a subject when the test with the
\* given number, from 1 for the type cue to 9 for the process cue, is the
\* first the text passes (src/index.js:422-455).
templateOfCue(cue, subject) ==
    CASE cue = 1 -> <<"W", "h", "a", "t", " ", "t", "y", "p", "e", " ", "i", "s", " ">> \o subject \o <<"?">>
      [] cue = 2 -> <<"W", "h", "a", "t", " ", "i", "s", " ", "t", "h", "e", " ", "q", "u", "a", "n", "t", "i", "t", "y", " ", "o", "r", " ", "p", "e", "r", "c", "e", "n", "t", "a", "g", "e", " ", "r", "e", "l", "a", "t", "e", "d", " ", "t", "o", " ">> \o subject \o <<"?">>
      [] cue = 3 -> <<"W", "h", "a", "t", " ", "a", "r", "e", " ", "t", "h", "e", " ", "e", "f", "f", "e", "c", "t", "s", " ", "o", "r", " ", "r", "e", "s", "u", "l", "t", "s", " ", "o", "f", " ">> \o subject \o <<"?">>
      [] cue = 4 -> <<"W", "h", "y", " ", "i", "s", " ">> \o subject \o <<" ", "s", "i", "g", "n", "i", "f", "i", "c", "a", "n", "t", "?">>
      [] cue = 5 -> <<"H", "o", "w", " ", "d", "o", "e", "s", " ">> \o subject \o <<" ", "h", "e", "l", "p", " ", "o", "r", " ", "e", "n", "a", "b", "l", "e", " ", "o", "u", "t", "c", "o", "m", "e", "s", "?">>
      [] cue = 6 -> <<"W", "h", "a", "t", " ", "a", "r", "e", " ", "t", "h", "e", " ", "r", "e", "q", "u", "i", "r", "e", "m", "e", "n", "t", "s", " ", "f", "o", "r", " ">> \o subject \o <<"?">>
      [] cue = 7 -> <<"W", "h", "a", "t", " ", "d", "o", "e", "s", " ">> \o subject \o <<" ", "i", "n", "c", "l", "u", "d", "e", " ", "o", "r", " ", "c", "o", "n", "t", "a", "i", "n", "?">>
      [] cue = 8 -> <<"W", "h", "e", "r", "e", " ", "o", "r", " ", "w", "h", "e", "n", " ", "d", "o", "e", "s", " ">> \o subject \o <<" ", "o", "c", "c", "u", "r", "?">>
      [] cue = 9 -> <<"W", "h", "a", "t", " ", "i", "s", " ", "t", "h", "e", " ", "p", "r", "o", "c", "e", "s", "s", " ", "o", "r", " ", "m", "e", "t", "h", "o", "d", " ", "f", "o", "r", " ">> \o subject \o <<"?">>

\* The numbers of the tests of formatQuestion the text passes.
cuesOf(text) ==
    (IF IsTypeCue(text) THEN {1} ELSE {})
        \cup (IF IsQuantityCue(text) THEN {2} ELSE {})
        \cup {k + 2 : k \in {j \in 1..Len(CONTENT_CUES) : HasPhrase(text, CONTENT_CUES[j])}}

\* C21: the question of a sentence that a pattern matches and that passes a
\* content cue is the template of the first cue it passes, in the order type,
\* quantity, causal, justificatory, enabling, requirement, inclusion,
\* location, process, filled with the subject of the pattern's first group,
\* and never the template of a later cue; the question of 'The process
\* requires no manual intervention.' is 'What are the requirements for
\* process?'.  Stated of the result the latest call of generate returned.
C21_FirstCueTemplate ==
    \A k \in {Len(results)} \ {0} :
        \A i \in 1..Len(results[k]) :
            LET Templated(question, subject, cues) ==
                    (cues # {}) =>
                        /\ question = templateOfCue(Least(cues), subject)
                        /\ \A later \in cues \ {Least(cues)} :
                               question # templateOfCue(later, subject)
                First(question, text) ==
                    /\ (matchingPatterns(text) # {}) =>
                           Templated(question, patternSubject(text), cuesOf(text))
                    /\ (text = <<"T", "h", "e", " ", "p", "r", "o", "c", "e", "s", "s", " ", "r", "e", "q", "u", "i", "r", "e", "s", " ", "n", "o", " ", "m", "a", "n", "u", "a", "l", " ", "i", "n", "t", "e", "r", "v", "e", "n", "t", "i", "o", "n">>) =>
                           question = <<"W", "h", "a", "t", " ", "a", "r", "e", " ", "t", "h", "e", " ", "r", "e", "q", "u", "i", "r", "e", "m", "e", "n", "t", "s", " ", "f", "o", "r", " ", "p", "r", "o", "c", "e", "s", "s", "?">>
            IN  First(results[k][i].question, questionText(sentenceOf(results[k][i])))

\* A result holds the question of 'The process requires no manual
\* intervention.', which passes the requirement test and the process test, and
\* the question of a sentence that passes four tests, the type test first.
C21_Witness ==
    /\ results # <<>>
    /\ \E i \in 1..Len(results[1]) :
           LET Example(text) ==
                   /\ text = <<"T", "h", "e", " ", "p", "r", "o", "c", "e", "s", "s", " ", "r", "e", "q", "u", "i", "r", "e", "s", " ", "n", "o", " ", "m", "a", "n", "u", "a", "l", " ", "i", "n", "t", "e", "r", "v", "e", "n", "t", "i", "o", "n">>
                   /\ cuesOf(text) = {6, 9}
           IN  Example(questionText(sentenceOf(results[1][i])))
    /\ \E i \in 1..Len(results[1]) :
           LET Several(text) ==
                   /\ matchingPatterns(text) # {}
                   /\ cuesOf(text) = {1, 2, 6, 9}
           IN  Several(questionText(sentenceOf(results[1][i])))

\* C22: at most one call of handleGenerate waits at its await, and one waits
\* exactly while state.isGenerating is set; a generate request that arrives
\* while a run is in progress starts no run and leaves the stored source
\* text, the stored FAQs and the rendered cards as they were.
C22_OneRunAtATime ==
    [][ /\ suspended' <= 1
        /\ state'.isGenerating <=> (suspended' = 1)
        /\ (state.isGenerating
                /\ event' \in {"generate:busy", "generate:invalid", "generate:started"}) =>
               /\ event' = "generate:busy"
               /\ suspended' = suspended
               /\ state' = state
               /\ faqGrid' = faqGrid
               /\ outputSection' = outputSection
      ]_vars

\* A generate request has arrived during the delay of a run, after the
\* textarea was changed to another text the input gate accepts, while FAQs of
\* an earlier run are stored and rendered.
C22_Witness ==
    /\ event = "generate:busy"
    /\ state.isGenerating
    /\ suspended = 1
    /\ isValid(sourceDocument)
    /\ trim(sourceDocument) # state.sourceText
    /\ state.faqs # <<>>
    /\ faqGrid = state.faqs

\* C23: every run of handleGenerate that has started ends, with
\* state.isGenerating cleared and the loading mark of the button removed,
\* whether it renders FAQs or fails with the insufficient-content error.
C23_RunEnds ==
    state.isGenerating ~> (~state.isGenerating /\ ~generateBtn.loading)

\* A run has failed with the insufficient-content error, and the flag and the
\* loading mark are cleared.
C23_Witness ==
    /\ event = "generate:failed"
    /\ toasts = <<NotEnoughToast>>
    /\ ~state.isGenerating
    /\ ~generateBtn.loading
    /\ suspended = 0

\* C24: the input gate accepts the text of the textarea exactly if the
\* Segmenter finds at least 5 sentences in it, and no run ends in the
\* insufficient-content error.
C24_GateAgreesWithSegmenter ==
    /\ isValid(sourceDocument) <=> ~FewerThanFive(trim(sourceDocument))
    /\ event # "generate:failed"

\* C25: the stored source text is the trimmed text of the textarea at the
\* moment a generate request is accepted; no edit, file load or file removal
\* during the run changes it or the stored FAQs; and the run analyses that
\* text: when it ends the stored source text is still that text, the FAQs it
\* renders are the ones it stores and were generated from that text, and
\* where the textarea holds another text by then they are the FAQs generate
\* makes of the stored text.
C25_RunUsesSnapshot ==
    [][ /\ (~state.isGenerating /\ state'.isGenerating) =>
               state'.sourceText = trim(sourceDocument)
        /\ (state.isGenerating /\ state'.isGenerating) =>
               /\ state'.sourceText = state.sourceText
               /\ state'.faqs = state.faqs
               /\ faqGrid' = faqGrid
        /\ (state.isGenerating /\ ~state'.isGenerating) =>
               /\ state'.sourceText = state.sourceText
               /\ (event' = "generate:rendered") =>
                      /\ renderedFrom' = state.sourceText
                      /\ faqGrid' = state'.faqs
                      /\ (trim(sourceDocument) # state.sourceText) =>
                             state'.faqs = generate(TextAnalyzer(state.sourceText))
      ]_vars

\* A run has rendered FAQs after a file was loaded into the textarea during
\* its delay: the textarea holds the text of the file, the stored source text
\* is the one the request was accepted with.
C25_Witness ==
    /\ event = "generate:rendered"
    /\ state.currentFile # Null
    /\ sourceDocument = state.currentFile.text
    /\ trim(sourceDocument) # state.sourceText
    /\ renderedFrom = state.sourceText
    /\ faqGrid = state.faqs
====
